---- MODULE Spec2Model ----
(***************************************************************************)
(* Trip financial ledger and referential-integrity engine of               *)
(* backend/server.py: the derived-field calculator, the financial-record   *)
(* and payment-installment handlers, the trip-status handlers, the cascade *)
(* deletion of a trip, the orphan sweep and the financial report.          *)
(*                                                                         *)
(* A collection of the document store is a sequence of documents in        *)
(* insertion order; a document is a function from field names to values.   *)
(* Ids stand for uuid4 strings: a collection hands out 1, 2, 3, ... and    *)
(* never reuses one; 0 is an id that names no document.  Amounts are       *)
(* integers; every amount drawn is a multiple of 25, on which the 4%       *)
(* supplier rate is exact.  Of the dates only practice_confirm_date is     *)
(* kept, to the month, for the financial report; the other timestamps and  *)
(* the practice and booking numbers are left out: no handler modelled here *)
(* reads them.                                                             *)
(* A handler runs from its first store call to its return in one step.     *)
(* Three handlers are also given one step per store call:                  *)
(* create_payment_installment, for requests served at once; delete_trip,   *)
(* for a cascade that ends early and for create requests served between    *)
(* its writes; update_trip_status, for the process stopping between its    *)
(* two writes.                                                             *)
(***************************************************************************)
EXTENDS Integers, Sequences, FiniteSets

VARIABLES
    trips,                  \* db.trips
    trip_admin,             \* db.trip_admin
    payment_installments,   \* db.payment_installments
    itineraries,            \* db.itineraries
    cruise_info,            \* db.cruise_info
    client_notes,           \* db.client_notes
    client_photos,          \* db.client_photos
    next_id,                \* per collection, the next id uuid4 hands out
    last,                   \* the request served last and its response
    calc,                   \* one call of the calculator: arguments and result
    inflight,               \* per request slot, the add-installment request being
                            \* served there: its position and its locals
    running                 \* the delete-trip or change-trip-status request
                            \* being served one write at a time: its position
                            \* and its locals

vars == <<trips, trip_admin, payment_installments, itineraries, cruise_info,
          client_notes, client_photos, next_id, last, calc,
          inflight, running>>

store == <<trips, trip_admin, payment_installments, itineraries, cruise_info,
           client_notes, client_photos>>

children == <<itineraries, cruise_info, client_notes, client_photos>>

-----------------------------------------------------------------------------
(* Bounds of the model *)

MaxTrips == 1
MaxAdmins == 1
MaxPayments == 2
MaxCalcInstallments == 2

(* Program constants *)

ListLimit == 1000
SupplierRatePercent == 4

-----------------------------------------------------------------------------
(* Callers *)

AdminUser == [id |-> "admin-1", role |-> "admin"]
AgentUser == [id |-> "agent-1", role |-> "agent"]
ClientUser == [id |-> "client-1", role |-> "client"]
Users == {AdminUser, AgentUser, ClientUser}

TripStatus == {"draft", "active", "confirmed", "completed", "cancelled"}

-----------------------------------------------------------------------------
(* The document store *)

Min(S) == CHOOSE x \in S : \A y \in S : x <= y

\* cursor.to_list(n)
ToList(coll, n) == IF Len(coll) <= n THEN coll ELSE SubSeq(coll, 1, n)

\* collection.find(query)
Find(coll, key, value) == SelectSeq(coll, LAMBDA d : d[key] = value)

\* collection.find_one(query) is not None
Found(coll, key, value) == \E i \in 1..Len(coll) : coll[i][key] = value

\* collection.find_one(query), when a document matches
FindOne(coll, key, value) == coll[Min({i \in 1..Len(coll) : coll[i][key] = value})]

\* {**doc, **fields}, and the effect of {"$set": fields} on doc
Merge(doc, fields) ==
    [k \in DOMAIN doc \cup DOMAIN fields |->
        IF k \in DOMAIN fields THEN fields[k] ELSE doc[k]]

\* collection.update_one(query, {"$set": fields}): the first match only
UpdateOne(coll, key, value, fields) ==
    IF Found(coll, key, value)
    THEN LET i == Min({j \in 1..Len(coll) : coll[j][key] = value})
         IN  [coll EXCEPT ![i] = Merge(coll[i], fields)]
    ELSE coll

\* collection.delete_many(query)
DeleteMany(coll, key, value) == SelectSeq(coll, LAMBDA d : d[key] # value)

\* collection.delete_one(query): the first match only
DeleteOne(coll, key, value) ==
    IF Found(coll, key, value)
    THEN LET i == Min({j \in 1..Len(coll) : coll[j][key] = value})
         IN  SubSeq(coll, 1, i - 1) \o SubSeq(coll, i + 1, Len(coll))
    ELSE coll

\* mutant: the count is that of the documents the collection held
DeletedCount_Before(before, after) == Len(before)

\* result.deleted_count
DeletedCount(before, after) == Len(before) - Len(after)

\* the ids a collection has handed out so far, and 0, which names nothing
KnownIds(c) == 0..(next_id[c] - 1)

\* the ids a collection has handed out so far: documents stored or deleted
IssuedIds(c) == 1..(next_id[c] - 1)

-----------------------------------------------------------------------------
(* The derived-field calculator *)

\* dict.get(key, default)
Get(d, k, default) == IF k \in DOMAIN d THEN d[k] ELSE default

RECURSIVE SumAmounts(_)
\* sum(inst.get('amount', 0) for inst in installments)
SumAmounts(installments) ==
    IF installments = <<>> THEN 0
    ELSE Get(Head(installments), "amount", 0) + SumAmounts(Tail(installments))

\* mutant: the commission of the amount the record was created with
SupplierCommission_AsCreated(gross_amount) == (2000 * SupplierRatePercent) \div 100

\* gross_amount * 0.04
SupplierCommission(gross_amount) == (gross_amount * SupplierRatePercent) \div 100

\* mutant: the installments are not counted as paid
TotalPaid_DepositOnly(confirmation_deposit, installments) == confirmation_deposit

\* total_paid = confirmation_deposit (+ the installments, if any)
TotalPaid(confirmation_deposit, installments) ==
    IF installments # <<>>
    THEN confirmation_deposit + SumAmounts(installments)
    ELSE confirmation_deposit

calculate_trip_admin_fields(trip_admin_data, installments) ==
    LET gross_amount == Get(trip_admin_data, "gross_amount", 0)
        net_amount == Get(trip_admin_data, "net_amount", 0)
        discount == Get(trip_admin_data, "discount", 0)
        confirmation_deposit == Get(trip_admin_data, "confirmation_deposit", 0)
        gross_commission == gross_amount - discount - net_amount
        supplier_commission == SupplierCommission(gross_amount)
        agent_commission == gross_commission - supplier_commission
        balance_due == gross_amount - TotalPaid(confirmation_deposit, installments)
    IN  Merge(trip_admin_data,
              [gross_commission |-> gross_commission,
               supplier_commission |-> supplier_commission,
               agent_commission |-> agent_commission,
               balance_due |-> balance_due])

-----------------------------------------------------------------------------
(* Requests and responses *)

NoRequest ==
    [op |-> "none", code |-> 0, path_id |-> 0, body_id |-> 0, new_id |-> 0,
     status |-> "", amount |-> 0, pre_balance |-> 0, pre_status |-> "",
     deleted_counts |-> <<>>, details |-> <<>>, total_deleted |-> 0,
     remaining_trips |-> 0, caller |-> "", step |-> 0, year |-> 0, month |-> 0,
     agent_id |-> "", detailed_trips |-> <<>>, admin_id |-> 0, balance_due |-> 0]

\* the request op served with HTTP status code; the other fields as given
Response(op, code, fields) == Merge(Merge(NoRequest, [op |-> op, code |-> code]), fields)

\* the same, with the role of the caller u
Reply(u, op, code, fields) == Merge(Response(op, code, fields), [caller |-> u.role])

\* no uuid handed out yet
FirstIds ==
    [trips |-> 1, trip_admin |-> 1, payment_installments |-> 1, itineraries |-> 1,
     cruise_info |-> 1, client_notes |-> 1, client_photos |-> 1]

\* the request slots: two add-installment requests can be served at once
Slots == {1, 2}

\* a slot serving no request
Idle ==
    [pc |-> "idle", admin_id |-> 0, payment |-> <<>>, installments |-> <<>>,
     trip_admin |-> <<>>, caller |-> ""]

NoneInFlight == [s \in Slots |-> Idle]

\* no request is being served one write at a time
NotRunning ==
    [op |-> "", pc |-> 0, trip_id |-> 0, status |-> "", user |-> [id |-> "", role |-> ""],
     counts |-> <<>>, existing_trip_ids |-> {}, stopped |-> FALSE]

NoCalc == [data |-> <<>>, installments |-> <<>>, result |-> <<>>, pc |-> "idle"]

\* mutant: the role of the caller is not looked at
Staff_AnyRole(u) == TRUE

\* current_user["role"] in ["admin", "agent"]
Staff(u) == u.role \in {"admin", "agent"}

\* current_user["role"] == "agent" and trip["agent_id"] != current_user["id"]
OtherAgentsTrip(u, trip) == u.role = "agent" /\ trip.agent_id # u.id

-----------------------------------------------------------------------------
(* Trips *)

\* POST /trips
create_trip(u, trip_data) ==
    /\ IF ~Staff(u)
       THEN /\ last' = Reply(u, "create_trip", 403, <<>>)
            /\ UNCHANGED <<trips, next_id>>
       ELSE /\ LET trip == Merge(trip_data,
                                 [id |-> next_id.trips, agent_id |-> u.id,
                                  status |-> "draft"])
               IN  /\ trips' = Append(trips, trip)
                   /\ last' = Reply(u, "create_trip", 200, [new_id |-> trip.id])
            /\ next_id' = [next_id EXCEPT !.trips = @ + 1]
    /\ UNCHANGED <<trip_admin, payment_installments, children, calc, inflight, running>>

\* PUT /trips/{trip_id}; trip_data holds the fields that are set and not None
update_trip(u, trip_id, trip_data) ==
    /\ IF ~Staff(u)
       THEN /\ last' = Reply(u, "update_trip", 403, <<>>)
            /\ UNCHANGED trips
       ELSE IF ~Found(trips, "id", trip_id)
       THEN /\ last' = Reply(u, "update_trip", 404, <<>>)
            /\ UNCHANGED trips
       ELSE IF OtherAgentsTrip(u, FindOne(trips, "id", trip_id))
       THEN /\ last' = Reply(u, "update_trip", 403, <<>>)
            /\ UNCHANGED trips
       ELSE /\ trips' = IF DOMAIN trip_data # {}
                        THEN UpdateOne(trips, "id", trip_id, trip_data)
                        ELSE trips
            /\ last' = Reply(u, "update_trip", 200,
                                [path_id |-> trip_id,
                                 status |-> Get(trip_data, "status", "")])
    /\ UNCHANGED <<trip_admin, payment_installments, children, next_id, calc, inflight, running>>

\* mutant: a confirmation is not mirrored
MirrorStatus_DraftOnly(admins, trip_id, new_status) ==
    IF new_status = "draft" /\ Found(admins, "trip_id", trip_id)
    THEN UpdateOne(admins, "trip_id", trip_id, [status |-> "draft"])
    ELSE admins

\* mutant: a return to draft is not mirrored
MirrorStatus_ConfirmedOnly(admins, trip_id, new_status) ==
    IF new_status = "confirmed" /\ Found(admins, "trip_id", trip_id)
    THEN UpdateOne(admins, "trip_id", trip_id, [status |-> "confirmed"])
    ELSE admins

\* mutant: every trip status is mirrored
MirrorStatus_Every(admins, trip_id, new_status) ==
    IF Found(admins, "trip_id", trip_id)
    THEN UpdateOne(admins, "trip_id", trip_id, [status |-> new_status])
    ELSE admins

\* mutant: the mirror write is an upsert
MirrorStatus_Upsert(admins, trip_id, new_status) ==
    IF new_status \in {"confirmed", "draft"}
    THEN IF Found(admins, "trip_id", trip_id)
         THEN UpdateOne(admins, "trip_id", trip_id,
                        [status |-> new_status])
         ELSE Append(admins,
                     Merge(calculate_trip_admin_fields([trip_id |-> trip_id], <<>>),
                           [id |-> 0, gross_amount |-> 0, net_amount |-> 0,
                            discount |-> 0, confirmation_deposit |-> 0,
                            status |-> new_status]))
    ELSE admins

\* mutant: the mirror is written only when the request changes the status the
\* trip has
MirrorStatus_OnChange(admins, trip_id, new_status) ==
    IF /\ new_status \in {"confirmed", "draft"}
       /\ Found(admins, "trip_id", trip_id)
       /\ FindOne(trips, "id", trip_id).status # new_status
    THEN UpdateOne(admins, "trip_id", trip_id, [status |-> new_status])
    ELSE admins

\* the mirror of update_trip_status: confirmed and draft are copied to the
\* first financial record found for the trip, when there is one
MirrorStatus(admins, trip_id, new_status) ==
    IF new_status = "confirmed"
    THEN IF Found(admins, "trip_id", trip_id)
         THEN UpdateOne(admins, "trip_id", trip_id,
                        [status |-> "confirmed"])
         ELSE admins
    ELSE IF new_status = "draft"
    THEN IF Found(admins, "trip_id", trip_id)
         THEN UpdateOne(admins, "trip_id", trip_id, [status |-> "draft"])
         ELSE admins
    ELSE admins

\* mutant: only the title is asked for
LacksRequiredData_TitleOnly(trip, new_status) ==
    /\ new_status \in {"active", "confirmed"}
    /\ Get(trip, "title", "") = ""

\* "ensure it has minimum required data": not trip.get("title") or not
\* trip.get("client_id"), asked when activating or confirming
LacksRequiredData(trip, new_status) ==
    /\ new_status \in {"active", "confirmed"}
    /\ (Get(trip, "title", "") = "" \/ Get(trip, "client_id", "") = "")

\* the status of the financial record find_one gives for trip_id in admins,
\* "" when there is none
StatusIn(admins, trip_id) ==
    IF Found(admins, "trip_id", trip_id)
    THEN FindOne(admins, "trip_id", trip_id).status
    ELSE ""

\* PUT /trips/{trip_id}/status; status_data is the body, a dict
update_trip_status(u, trip_id, status_data) ==
    /\ IF ~Staff(u)
       THEN /\ last' = Reply(u, "update_trip_status", 403, <<>>)
            /\ UNCHANGED <<trips, trip_admin>>
       ELSE IF ~Found(trips, "id", trip_id)
       THEN /\ last' = Reply(u, "update_trip_status", 404, <<>>)
            /\ UNCHANGED <<trips, trip_admin>>
       ELSE IF OtherAgentsTrip(u, FindOne(trips, "id", trip_id))
       THEN /\ last' = Reply(u, "update_trip_status", 403, [path_id |-> trip_id])
            /\ UNCHANGED <<trips, trip_admin>>
       ELSE LET trip == FindOne(trips, "id", trip_id)
                new_status == Get(status_data, "status", "")
            IN  IF new_status \notin TripStatus
                THEN /\ last' = Reply(u, "update_trip_status", 400,
                                         [path_id |-> trip_id, status |-> new_status])
                     /\ UNCHANGED <<trips, trip_admin>>
                ELSE IF LacksRequiredData(trip, new_status)
                THEN /\ last' = Reply(u, "update_trip_status", 400,
                                         [path_id |-> trip_id, status |-> new_status])
                     /\ UNCHANGED <<trips, trip_admin>>
                ELSE /\ trips' = UpdateOne(trips, "id", trip_id,
                                           [status |-> new_status])
                     /\ trip_admin' = MirrorStatus(trip_admin, trip_id, new_status)
                     /\ last' = Reply(u, "update_trip_status", 200,
                                         [path_id |-> trip_id, status |-> new_status,
                                          pre_status |-> StatusIn(trip_admin, trip_id)])
    /\ UNCHANGED <<payment_installments, children, next_id, calc, inflight, running>>

\* mutant: delete_one in place of delete_many
DeleteByTrip_FirstOnly(coll, trip_id) == DeleteOne(coll, "trip_id", trip_id)

\* collection.delete_many({"trip_id": trip_id})
DeleteByTrip(coll, trip_id) == DeleteMany(coll, "trip_id", trip_id)

\* mutant: the cascade runs whether or not the trip is stored
TripNotFound_Never(trip_id) == FALSE

\* mutant: the trip is missing when no trip at all is stored
TripNotFound_WhenNoTrips(trip_id) == trips = <<>>

\* trip = find_one({"id": trip_id}); not trip
TripNotFound(trip_id) == ~Found(trips, "id", trip_id)

\* DELETE /trips/{trip_id}
delete_trip(u, trip_id) ==
    /\ IF ~Staff(u)
       THEN /\ last' = Reply(u, "delete_trip", 403, <<>>)
            /\ UNCHANGED <<trips, trip_admin, children>>
       ELSE IF TripNotFound(trip_id)
       THEN /\ last' = Reply(u, "delete_trip", 404, [path_id |-> trip_id])
            /\ UNCHANGED <<trips, trip_admin, children>>
       ELSE IF OtherAgentsTrip(u, FindOne(trips, "id", trip_id))
       THEN /\ last' = Reply(u, "delete_trip", 403, [path_id |-> trip_id])
            /\ UNCHANGED <<trips, trip_admin, children>>
       ELSE /\ trip_admin' = DeleteByTrip(trip_admin, trip_id)
            /\ itineraries' = DeleteByTrip(itineraries, trip_id)
            /\ cruise_info' = DeleteByTrip(cruise_info, trip_id)
            /\ client_notes' = DeleteByTrip(client_notes, trip_id)
            /\ client_photos' = DeleteByTrip(client_photos, trip_id)
            /\ trips' = DeleteOne(trips, "id", trip_id)
            /\ last' = Reply(u, "delete_trip", 200,
                   [path_id |-> trip_id,
                    deleted_counts |->
                       [trip |-> DeletedCount(trips, trips'),
                        financial_records |-> DeletedCount(trip_admin, trip_admin'),
                        itineraries |-> DeletedCount(itineraries, itineraries'),
                        cruise_info |-> DeletedCount(cruise_info, cruise_info'),
                        client_notes |-> DeletedCount(client_notes, client_notes'),
                        client_photos |-> DeletedCount(client_photos, client_photos')]])
    /\ UNCHANGED <<payment_installments, next_id, calc, inflight, running>>

-----------------------------------------------------------------------------
(* Child records of a trip *)

\* POST /itineraries
create_itinerary(u, itinerary_data) ==
    /\ IF ~Staff(u)
       THEN /\ last' = Reply(u, "create_itinerary", 403, <<>>)
            /\ UNCHANGED <<itineraries, next_id>>
       ELSE /\ LET itinerary == Merge(itinerary_data, [id |-> next_id.itineraries])
               IN  /\ itineraries' = Append(itineraries, itinerary)
                   /\ last' = Reply(u, "create_itinerary", 200,
                                       [body_id |-> itinerary.trip_id,
                                        new_id |-> itinerary.id])
            /\ next_id' = [next_id EXCEPT !.itineraries = @ + 1]
    /\ UNCHANGED <<trips, trip_admin, payment_installments, cruise_info,
                   client_notes, client_photos, calc, inflight, running>>

\* POST /trips/{trip_id}/cruise-info
create_cruise_info(u, trip_id, cruise_data) ==
    /\ IF ~Staff(u)
       THEN /\ last' = Reply(u, "create_cruise_info", 403, <<>>)
            /\ UNCHANGED <<cruise_info, next_id>>
       ELSE /\ LET cruise == Merge(cruise_data, [id |-> next_id.cruise_info])
               IN  /\ cruise_info' = Append(cruise_info, cruise)
                   /\ last' = Reply(u, "create_cruise_info", 200,
                                       [path_id |-> trip_id,
                                        body_id |-> cruise.trip_id,
                                        new_id |-> cruise.id])
            /\ next_id' = [next_id EXCEPT !.cruise_info = @ + 1]
    /\ UNCHANGED <<trips, trip_admin, payment_installments, itineraries,
                   client_notes, client_photos, calc, inflight, running>>

\* POST /trips/{trip_id}/notes
create_client_note(u, trip_id, note_data) ==
    /\ IF u.role # "client"
       THEN /\ last' = Reply(u, "create_client_note", 403, <<>>)
            /\ UNCHANGED <<client_notes, next_id>>
       ELSE /\ LET note == Merge(note_data,
                                 [id |-> next_id.client_notes, client_id |-> u.id])
               IN  /\ client_notes' = Append(client_notes, note)
                   /\ last' = Reply(u, "create_client_note", 200,
                                       [path_id |-> trip_id,
                                        body_id |-> note.trip_id,
                                        new_id |-> note.id])
            /\ next_id' = [next_id EXCEPT !.client_notes = @ + 1]
    /\ UNCHANGED <<trips, trip_admin, payment_installments, itineraries,
                   cruise_info, client_photos, calc, inflight, running>>

\* the access check of upload_photo
PhotoRefused(u, trip_id) ==
    IF u.role # "client"
    THEN \/ ~Found(trips, "id", trip_id)
         \/ OtherAgentsTrip(u, FindOne(trips, "id", trip_id))
    ELSE \/ ~Found(trips, "id", trip_id)
         \/ FindOne(trips, "id", trip_id).client_id # u.id

\* POST /trips/{trip_id}/photos
upload_photo(u, trip_id) ==
    /\ IF PhotoRefused(u, trip_id)
       THEN /\ last' = Reply(u, "upload_photo", 403, <<>>)
            /\ UNCHANGED <<client_photos, next_id>>
       ELSE /\ LET photo == [id |-> next_id.client_photos, trip_id |-> trip_id,
                             client_id |-> u.id]
               IN  /\ client_photos' = Append(client_photos, photo)
                   /\ last' = Reply(u, "upload_photo", 200,
                                       [path_id |-> trip_id, new_id |-> photo.id])
            /\ next_id' = [next_id EXCEPT !.client_photos = @ + 1]
    /\ UNCHANGED <<trips, trip_admin, payment_installments, itineraries,
                   cruise_info, client_notes, calc, inflight, running>>

-----------------------------------------------------------------------------
(* Financial records and payment installments *)

\* the balance_due stored in admins for financial record admin_id, 0 when
\* there is none
BalanceIn(admins, admin_id) ==
    IF Found(admins, "id", admin_id)
    THEN FindOne(admins, "id", admin_id).balance_due
    ELSE 0

StoredBalance(admin_id) == BalanceIn(trip_admin, admin_id)

\* POST /trips/{trip_id}/admin
create_trip_admin(u, trip_id, admin_data) ==
    /\ IF ~Staff(u)
       THEN /\ last' = Reply(u, "create_trip_admin", 403, <<>>)
            /\ UNCHANGED <<trip_admin, next_id>>
       ELSE IF TripNotFound(trip_id)
       THEN /\ last' = Reply(u, "create_trip_admin", 404, [path_id |-> trip_id])
            /\ UNCHANGED <<trip_admin, next_id>>
       ELSE IF OtherAgentsTrip(u, FindOne(trips, "id", trip_id))
       THEN /\ last' = Reply(u, "create_trip_admin", 403, [path_id |-> trip_id])
            /\ UNCHANGED <<trip_admin, next_id>>
       ELSE /\ LET calculated_data == calculate_trip_admin_fields(admin_data, <<>>)
                   doc == Merge(calculated_data,
                                [id |-> next_id.trip_admin, status |-> "draft"])
               IN  /\ trip_admin' = Append(trip_admin, doc)
                   /\ last' = Reply(u, "create_trip_admin", 200,
                                       [path_id |-> trip_id,
                                        body_id |-> admin_data.trip_id,
                                        new_id |-> doc.id])
            /\ next_id' = [next_id EXCEPT !.trip_admin = @ + 1]
    /\ UNCHANGED <<trips, payment_installments, children, calc, inflight, running>>

\* PUT /trip-admin/{admin_id}; admin_data holds the fields that are set and not None
update_trip_admin(u, admin_id, admin_data) ==
    /\ IF ~Staff(u)
       THEN /\ last' = Reply(u, "update_trip_admin", 403, <<>>)
            /\ UNCHANGED trip_admin
       ELSE IF ~Found(trip_admin, "id", admin_id)
       THEN /\ last' = Reply(u, "update_trip_admin", 404, [path_id |-> admin_id])
            /\ UNCHANGED trip_admin
       ELSE LET existing == FindOne(trip_admin, "id", admin_id)
                merged_data == Merge(existing, admin_data)
                installments ==
                    ToList(Find(payment_installments,
                                "trip_admin_id", admin_id), ListLimit)
                calculated_data == calculate_trip_admin_fields(merged_data, installments)
            IN  /\ trip_admin' = UpdateOne(trip_admin, "id", admin_id,
                                           calculated_data)
                /\ last' = Reply(u, "update_trip_admin", 200,
                                    [path_id |-> admin_id,
                                     pre_balance |-> existing.balance_due,
                                     pre_status |-> existing.status])
    /\ UNCHANGED <<trips, payment_installments, children, next_id, calc, inflight, running>>

\* mutant: the newest installment is taken off the stored balance_due
RecalculateBalance_Cached(admins, payments, admin_id) ==
    IF Found(admins, "id", admin_id) /\ payments # <<>>
    THEN UpdateOne(admins, "id", admin_id,
                   [balance_due |-> BalanceIn(admins, admin_id)
                                    - payments[Len(payments)].amount])
    ELSE admins

\* "Recalculate trip admin balance": the balance_due of record admin_id is set
\* from the installments found for admin_id, when the record exists
RecalculateBalance(admins, payments, admin_id) ==
    LET installments ==
            ToList(Find(payments, "trip_admin_id", admin_id), ListLimit)
    IN  IF Found(admins, "id", admin_id)
        THEN LET calculated_data ==
                     calculate_trip_admin_fields(
                         FindOne(admins, "id", admin_id), installments)
             IN  UpdateOne(admins, "id", admin_id,
                           [balance_due |-> calculated_data.balance_due])
        ELSE admins

\* POST /trip-admin/{admin_id}/payments
create_payment_installment(u, admin_id, payment_data) ==
    /\ IF ~Staff(u)
       THEN /\ last' = Reply(u, "create_payment_installment", 403, <<>>)
            /\ UNCHANGED <<trip_admin, payment_installments, next_id>>
       ELSE /\ LET payment == Merge(payment_data,
                                    [id |-> next_id.payment_installments])
               IN  /\ payment_installments' = Append(payment_installments, payment)
                   /\ trip_admin' = RecalculateBalance(trip_admin,
                                                       payment_installments',
                                                       admin_id)
                   /\ last' = Reply(u, "create_payment_installment", 200,
                                       [path_id |-> admin_id,
                                        body_id |-> payment.trip_admin_id,
                                        new_id |-> payment.id,
                                        amount |-> payment.amount,
                                        pre_balance |-> StoredBalance(admin_id)])
            /\ next_id' = [next_id EXCEPT !.payment_installments = @ + 1]
    /\ UNCHANGED <<trips, children, calc, inflight, running>>

\* DELETE /payments/{payment_id}
delete_payment_installment(u, payment_id) ==
    /\ IF ~Staff(u)
       THEN /\ last' = Reply(u, "delete_payment_installment", 403, <<>>)
            /\ UNCHANGED <<trip_admin, payment_installments>>
       ELSE IF ~Found(payment_installments, "id", payment_id)
       THEN /\ last' = Reply(u, "delete_payment_installment", 404,
                              [path_id |-> payment_id])
            /\ UNCHANGED <<trip_admin, payment_installments>>
       ELSE LET payment == FindOne(payment_installments, "id", payment_id)
                admin_id == payment.trip_admin_id
            IN  /\ payment_installments' =
                       DeleteOne(payment_installments, "id", payment_id)
                /\ trip_admin' = RecalculateBalance(trip_admin,
                                                    payment_installments', admin_id)
                /\ last' = Reply(u, "delete_payment_installment", 200,
                                    [path_id |-> payment_id,
                                     body_id |-> admin_id,
                                     amount |-> payment.amount,
                                     pre_balance |-> StoredBalance(admin_id)])
    /\ UNCHANGED <<trips, children, next_id, calc, inflight, running>>

-----------------------------------------------------------------------------
(* Inputs drawn by the specifications *)

\* TripCreate bodies
TripData == {[title |-> "Crociera", client_id |-> "client-1"]}

\* TripAdminCreate bodies naming trip id t
AdminData(t) ==
    {[trip_id |-> t, gross_amount |-> 2000, net_amount |-> 1800, discount |-> 100,
      confirmation_deposit |-> 500]}

\* TripAdminUpdate bodies: the fields set and not None
AdminUpdates == {[gross_amount |-> 2500, confirmation_deposit |-> 250]}

\* PaymentInstallmentCreate bodies naming financial record id a
PaymentData(a) == {[trip_admin_id |-> a, amount |-> m] : m \in {300, 700}}

\* uuid4 has handed out fewer than n ids of collection c
Fresh(c, n) == next_id[c] <= n

-----------------------------------------------------------------------------
(* The financial ledger: trips, financial records and installments, one    *)
(* request after the other                                                 *)

Init ==
    /\ trips = <<>>
    /\ trip_admin = <<>>
    /\ payment_installments = <<>>
    /\ itineraries = <<>>
    /\ cruise_info = <<>>
    /\ client_notes = <<>>
    /\ client_photos = <<>>
    /\ next_id = FirstIds
    /\ last = NoRequest
    /\ calc = NoCalc
    /\ inflight = NoneInFlight
    /\ running = NotRunning

LedgerUsers == {AdminUser}

Next ==
    \/ /\ Fresh("trips", MaxTrips)
       /\ \E u \in LedgerUsers, d \in TripData : create_trip(u, d)
    \/ /\ Fresh("trip_admin", MaxAdmins)
       /\ \E u \in LedgerUsers, t \in KnownIds("trips") :
             \E d \in AdminData(t) : create_trip_admin(u, t, d)
    \/ \E u \in LedgerUsers, a \in KnownIds("trip_admin"), d \in AdminUpdates :
          update_trip_admin(u, a, d)
    \/ /\ Fresh("payment_installments", MaxPayments)
       /\ \E u \in LedgerUsers, a \in KnownIds("trip_admin"),
             b \in KnownIds("trip_admin") :
             \E d \in PaymentData(b) : create_payment_installment(u, a, d)
    \/ \E u \in LedgerUsers, p \in KnownIds("payment_installments") :
          delete_payment_installment(u, p)

Spec == Init /\ [][Next]_vars

-----------------------------------------------------------------------------
(* Claims on the financial ledger *)

\* the installments stored for financial record admin_id
InstallmentsOf(admin_id) ==
    Find(payment_installments, "trip_admin_id", admin_id)

\* the balance the calculator's rule gives record R from what is stored now
BalanceOf(R) ==
    R.gross_amount - R.confirmation_deposit - SumAmounts(InstallmentsOf(R.id))

\* C1: after any sequence of completed create, update, add-installment and
\* remove-installment requests, every stored financial record R has
\* balance_due = gross_amount - confirmation_deposit - the sum of the stored
\* installments whose trip_admin_id is R's id, also when an installment's body
\* named another trip_admin_id than the request path.
C1_BalanceMatchesInstallments ==
    \A i \in 1..Len(trip_admin) : trip_admin[i].balance_due = BalanceOf(trip_admin[i])

C3_AddThenRemove ==
    [][(/\ last.op = "create_payment_installment"
        /\ last.code = 200
        /\ last.path_id = last.body_id
        /\ Found(trip_admin, "id", last.path_id)
        /\ last'.op = "delete_payment_installment"
        /\ last'.code = 200
        /\ last'.path_id = last.new_id)
       => /\ BalanceIn(trip_admin', last.path_id) = last.pre_balance
          /\ Append(payment_installments',
                    FindOne(payment_installments, "id", last.new_id))
                = payment_installments]_vars

-----------------------------------------------------------------------------
(* The calculator alone: one call on arguments drawn from bounded sets *)

CalcAmounts == {0, 100, 500, 1800, 2000}

\* raw financial fields with every key present, or with the two keys that
\* have a default in TripAdminCreate left out
CalcData ==
    {[gross_amount |-> g, net_amount |-> n, discount |-> d,
      confirmation_deposit |-> c] :
        g \in CalcAmounts, n \in CalcAmounts, d \in CalcAmounts, c \in CalcAmounts}
    \cup {[gross_amount |-> g, net_amount |-> n] :
            g \in CalcAmounts, n \in CalcAmounts}

\* installment documents, one of them without an amount
CalcInstallment == {[amount |-> 300], [amount |-> 700], [notes |-> ""]}

CalcInstallments ==
    UNION {[1..n -> CalcInstallment] : n \in 0..MaxCalcInstallments}

CalcInit ==
    /\ trips = <<>>
    /\ trip_admin = <<>>
    /\ payment_installments = <<>>
    /\ itineraries = <<>>
    /\ cruise_info = <<>>
    /\ client_notes = <<>>
    /\ client_photos = <<>>
    /\ next_id = FirstIds
    /\ last = NoRequest
    /\ calc \in {[data |-> d, installments |-> is, result |-> <<>>, pc |-> "call"] :
                    d \in CalcData, is \in CalcInstallments}
    /\ inflight = NoneInFlight
    /\ running = NotRunning

\* calculated_data = calculate_trip_admin_fields(data, installments)
Calculate ==
    /\ calc.pc = "call"
    /\ calc' = [calc EXCEPT
                  !.result = calculate_trip_admin_fields(calc.data, calc.installments),
                  !.pc = "return"]
    /\ UNCHANGED <<store, next_id, last, inflight, running>>

CalcNext == Calculate

CalcSpec == CalcInit /\ [][CalcNext]_vars

\* the amounts of the installments, an installment without one counting 0
RECURSIVE Paid(_, _)
Paid(installments, n) ==
    IF n = 0 THEN 0
    ELSE (IF "amount" \in DOMAIN installments[n] THEN installments[n].amount ELSE 0)
         + Paid(installments, n - 1)

\* field k of the calculator's input, 0 when the input has no such field
Raw(k) == IF k \in DOMAIN calc.data THEN calc.data[k] ELSE 0

\* C4: for every input the calculator returns gross_commission = gross -
\* discount - net, supplier_commission = 4% of gross, agent_commission =
\* gross_commission - supplier_commission and balance_due = gross - (deposit +
\* sum of the installment amounts), negative results included; gross 2000,
\* net 1800, discount 100, deposit 500 and no installments give 100, 80, 20
\* and 1500.
C4_CalculatorFormulas ==
    calc.pc = "return" =>
        /\ calc.result.gross_commission
              = Raw("gross_amount") - Raw("discount") - Raw("net_amount")
        /\ 100 * calc.result.supplier_commission = 4 * Raw("gross_amount")
        /\ calc.result.agent_commission
              = calc.result.gross_commission - calc.result.supplier_commission
        /\ calc.result.balance_due
              = Raw("gross_amount")
                - (Raw("confirmation_deposit")
                   + Paid(calc.installments, Len(calc.installments)))
        /\ \A k \in DOMAIN calc.data : calc.result[k] = calc.data[k]
        /\ (/\ calc.data = [gross_amount |-> 2000, net_amount |-> 1800,
                            discount |-> 100, confirmation_deposit |-> 500]
            /\ calc.installments = <<>>)
           => /\ calc.result.gross_commission = 100
              /\ calc.result.supplier_commission = 80
              /\ calc.result.agent_commission = 20
              /\ calc.result.balance_due = 1500

\* the calculator has returned a negative balance_due and a negative
\* agent_commission for an input with installments
C4_Witness ==
    /\ calc.pc = "return"
    /\ calc.installments # <<>>
    /\ calc.result.balance_due < 0
    /\ calc.result.agent_commission < 0

-----------------------------------------------------------------------------
(* Status synchronisation: trips, their status and the status of their     *)
(* financial records                                                       *)

StatusMaxTrips == 1
StatusMaxAdmins == 1

StatusUsers == {AdminUser}

\* TripCreate bodies, one with an empty title
StatusTripData ==
    {[title |-> "Crociera", client_id |-> "client-1"],
     [title |-> "", client_id |-> "client-1"]}

\* TripUpdate bodies that set the status
StatusTripUpdates == {[status |-> "confirmed"], [status |-> "draft"]}

\* bodies of PUT /trips/{trip_id}/status: the five values, a value that is
\* none of them, and a body without a status
StatusBodies ==
    {[status |-> x] : x \in TripStatus \cup {"archived"}} \cup {<<>>}

\* TripAdminUpdate bodies that set the status
StatusAdminUpdates == {[status |-> "paid"], [status |-> "cancelled"]}

StatusNext ==
    \/ /\ Fresh("trips", StatusMaxTrips)
       /\ \E u \in StatusUsers, d \in StatusTripData : create_trip(u, d)
    \/ \E u \in StatusUsers, t \in KnownIds("trips"), d \in StatusTripUpdates :
          update_trip(u, t, d)
    \/ \E u \in StatusUsers, t \in KnownIds("trips"), d \in StatusBodies :
          update_trip_status(u, t, d)
    \/ /\ Fresh("trip_admin", StatusMaxAdmins)
       /\ \E u \in StatusUsers, t \in KnownIds("trips") :
             \E d \in AdminData(t) : create_trip_admin(u, t, d)
    \/ \E u \in StatusUsers, a \in KnownIds("trip_admin"), d \in StatusAdminUpdates :
          update_trip_admin(u, a, d)

StatusSpec == Init /\ [][StatusNext]_vars

\* the trip status changes of both endpoints and the creation of financial
\* records, nothing else
MirrorNext ==
    \/ /\ Fresh("trips", StatusMaxTrips)
       /\ \E u \in StatusUsers, d \in StatusTripData : create_trip(u, d)
    \/ \E u \in StatusUsers, t \in KnownIds("trips"), d \in StatusTripUpdates :
          update_trip(u, t, d)
    \/ \E u \in StatusUsers, t \in KnownIds("trips"), d \in StatusBodies :
          update_trip_status(u, t, d)
    \/ /\ Fresh("trip_admin", StatusMaxAdmins)
       /\ \E u \in StatusUsers, t \in KnownIds("trips") :
             \E d \in AdminData(t) : create_trip_admin(u, t, d)

MirrorSpec == Init /\ [][MirrorNext]_vars

-----------------------------------------------------------------------------
(* Claims on the status synchronisation *)

\* the status stored for trip trip_id, "" when there is no such trip
TripStatusOf(trip_id) ==
    IF Found(trips, "id", trip_id)
    THEN FindOne(trips, "id", trip_id).status
    ELSE ""

\* the last request was a completed change-trip-status to new_status
StatusChanged(new_status) ==
    /\ last.op = "update_trip_status"
    /\ last.code = 200
    /\ last.status = new_status

\* C5: for a trip with a financial record, after a completed change of the
\* trip's status to confirmed the trip is confirmed and the financial record
\* read for the trip is confirmed.
C5_ConfirmIsMirrored ==
    (/\ StatusChanged("confirmed")
     /\ Found(trip_admin, "trip_id", last.path_id))
    => /\ TripStatusOf(last.path_id) = "confirmed"
       /\ StatusIn(trip_admin, last.path_id) = "confirmed"

\* a trip whose financial record was draft has been confirmed
C5_Witness ==
    /\ StatusChanged("confirmed")
    /\ last.pre_status = "draft"
    /\ StatusIn(trip_admin, last.path_id) = "confirmed"

\* C6: the financial record of a trip is created draft, a change of the trip's
\* status to confirmed makes it confirmed and a change back to draft makes it
\* draft again: draft -> confirmed -> draft.
C6_DraftConfirmedDraft ==
    /\ (last.op = "create_trip_admin" /\ last.code = 200)
       => FindOne(trip_admin, "id", last.new_id).status = "draft"
    /\ \A x \in {"confirmed", "draft"} :
          (/\ StatusChanged(x)
           /\ Found(trip_admin, "trip_id", last.path_id))
          => /\ TripStatusOf(last.path_id) = x
             /\ StatusIn(trip_admin, last.path_id) = x

\* a trip whose financial record was confirmed has been set back to draft
C6_Witness ==
    /\ StatusChanged("draft")
    /\ last.pre_status = "confirmed"
    /\ StatusIn(trip_admin, last.path_id) = "draft"

\* C7: a completed change of a trip's status to active, completed or
\* cancelled leaves every financial record as it was.
C7_OtherStatusesNotMirrored ==
    [][(/\ last'.op = "update_trip_status"
        /\ last'.code = 200
        /\ last'.status \in {"active", "completed", "cancelled"})
       => trip_admin' = trip_admin]_vars

\* a trip whose financial record is confirmed has been cancelled, and the
\* record is still confirmed
C7_Witness ==
    /\ StatusChanged("cancelled")
    /\ last.pre_status = "confirmed"
    /\ TripStatusOf(last.path_id) = "cancelled"
    /\ StatusIn(trip_admin, last.path_id) = "confirmed"

\* C8: a request to confirm a trip that has its required data and no
\* financial record succeeds, sets the trip's status to confirmed and leaves
\* the financial records as they were.
C8_ConfirmWithoutRecord ==
    [][(/\ last'.op = "update_trip_status"
        /\ last'.status = "confirmed"
        /\ Found(trips, "id", last'.path_id)
        /\ ~LacksRequiredData(FindOne(trips, "id", last'.path_id),
                              "confirmed")
        /\ ~Found(trip_admin, "trip_id", last'.path_id))
       => /\ last'.code = 200
          /\ FindOne(trips', "id", last'.path_id).status = "confirmed"
          /\ trip_admin' = trip_admin]_vars

\* a trip without a financial record has been confirmed
C8_Witness ==
    /\ StatusChanged("confirmed")
    /\ TripStatusOf(last.path_id) = "confirmed"
    /\ ~Found(trip_admin, "trip_id", last.path_id)

\* C9: after any sequence of trip status changes (by either endpoint) and
\* financial record creations, a confirmed trip's financial record, if any, is
\* confirmed and a draft trip's financial record, if any, is draft.
C9_StatusAlwaysMirrored ==
    \A i \in 1..Len(trips), j \in 1..Len(trip_admin) :
        (/\ trip_admin[j].trip_id = trips[i].id
         /\ trips[i].status \in {"confirmed", "draft"})
        => trip_admin[j].status = trips[i].status

-----------------------------------------------------------------------------
(* Cascade deletion: trips, their financial record and child records, and  *)
(* the deletion of a trip                                                  *)

CascadeMaxTrips == 2
CascadeMaxAdmins == 1
MaxChildren == 2

\* the itineraries, cruise infos, notes and photos created so far
ChildrenCreated ==
    (next_id.itineraries - 1) + (next_id.cruise_info - 1)
    + (next_id.client_notes - 1) + (next_id.client_photos - 1)

\* bodies of the child records' create requests naming trip id t
ChildData(t) == {[trip_id |-> t]}

CascadeNext ==
    \/ /\ Fresh("trips", CascadeMaxTrips)
       /\ \E d \in TripData : create_trip(AdminUser, d)
    \/ /\ Fresh("trip_admin", CascadeMaxAdmins)
       /\ \E t \in IssuedIds("trips") :
             \E d \in AdminData(t) : create_trip_admin(AdminUser, t, d)
    \/ /\ ChildrenCreated < MaxChildren
       /\ \E t \in IssuedIds("trips") :
             \E d \in ChildData(t) : create_itinerary(AdminUser, d)
    \/ /\ ChildrenCreated < MaxChildren
       /\ \E t \in IssuedIds("trips") :
             \E d \in ChildData(t) : create_cruise_info(AdminUser, t, d)
    \/ /\ ChildrenCreated < MaxChildren
       /\ \E t \in IssuedIds("trips") :
             \E d \in ChildData(t) : create_client_note(ClientUser, t, d)
    \/ /\ ChildrenCreated < MaxChildren
       /\ \E t \in IssuedIds("trips") : upload_photo(AdminUser, t)
    \/ \E t \in IssuedIds("trips") : delete_trip(AdminUser, t)

CascadeSpec == Init /\ [][CascadeNext]_vars

-----------------------------------------------------------------------------
(* Claims on the cascade deletion *)

\* the documents of a collection
Docs(coll) == {coll[i] : i \in 1..Len(coll)}

\* the documents of a collection that do not belong to trip trip_id
DocsOfOthers(coll, trip_id) == {d \in Docs(coll) : d.trip_id # trip_id}

\* C10: after a completed delete-trip of an existing trip T the trip document
\* is gone, no document with trip_id T remains among the financial records,
\* itineraries, cruise infos, client notes and client photos, and the
\* documents of the other trips are as they were.
C10_CascadeDeletesChildren ==
    [][(last'.op = "delete_trip" /\ last'.code = 200)
       => /\ Found(trips, "id", last'.path_id)
          /\ Docs(trips') = {t \in Docs(trips) : t.id # last'.path_id}
          /\ Docs(trip_admin') = DocsOfOthers(trip_admin, last'.path_id)
          /\ Docs(itineraries') = DocsOfOthers(itineraries, last'.path_id)
          /\ Docs(cruise_info') = DocsOfOthers(cruise_info, last'.path_id)
          /\ Docs(client_notes') = DocsOfOthers(client_notes, last'.path_id)
          /\ Docs(client_photos') = DocsOfOthers(client_photos, last'.path_id)]_vars

\* a trip with an itinerary and a financial record has been deleted, and an
\* itinerary of another trip is still stored
C10_Witness ==
    /\ last.op = "delete_trip"
    /\ last.code = 200
    /\ last.deleted_counts.itineraries = 1
    /\ last.deleted_counts.financial_records = 1
    /\ \E i \in 1..Len(itineraries), j \in 1..Len(trips) :
          itineraries[i].trip_id = trips[j].id

-----------------------------------------------------------------------------
(* Cascade deletion and the ledger: trips, their financial records, the    *)
(* installments of those records, and the deletion of a trip               *)

InstallmentMaxTrips == 2
InstallmentMaxAdmins == 2
InstallmentMaxPayments == 2

InstallmentNext ==
    \/ /\ Fresh("trips", InstallmentMaxTrips)
       /\ \E d \in TripData : create_trip(AdminUser, d)
    \/ /\ Fresh("trip_admin", InstallmentMaxAdmins)
       /\ \E t \in IssuedIds("trips") :
             \E d \in AdminData(t) : create_trip_admin(AdminUser, t, d)
    \/ /\ Fresh("payment_installments", InstallmentMaxPayments)
       /\ \E a \in IssuedIds("trip_admin") :
             \E d \in PaymentData(a) : create_payment_installment(AdminUser, a, d)
    \/ \E t \in IssuedIds("trips") : delete_trip(AdminUser, t)

InstallmentSpec == Init /\ [][InstallmentNext]_vars

\* C11: after a completed delete-trip of T no payment installment remains
\* whose trip_admin_id is the id of a financial record that belonged to T.
C11_CascadeDeletesInstallments ==
    [][(last'.op = "delete_trip" /\ last'.code = 200)
       => \A i \in 1..Len(trip_admin) :
             trip_admin[i].trip_id = last'.path_id
             => ~Found(payment_installments', "trip_admin_id", trip_admin[i].id)]_vars

-----------------------------------------------------------------------------
(* Claims on the counts of the cascade deletion *)

\* the number of documents of a collection whose field key has the value
CountOf(coll, key, value) == Len(Find(coll, key, value))

\* C12: the counts returned by delete-trip equal, per collection, the number
\* of records that existed for that trip id immediately before the call and
\* were removed by it; for a trip with one financial record and two
\* itineraries the result is trip=1, financial_records=1, itineraries=2 and 0
\* for the others.
C12_DeletedCounts ==
    [][(last'.op = "delete_trip" /\ last'.code = 200)
       => LET T == last'.path_id
              counts == last'.deleted_counts
          IN  /\ counts.trip = CountOf(trips, "id", T)
              /\ counts.trip = Len(trips) - Len(trips')
              /\ counts.financial_records = CountOf(trip_admin, "trip_id", T)
              /\ counts.financial_records = Len(trip_admin) - Len(trip_admin')
              /\ counts.itineraries = CountOf(itineraries, "trip_id", T)
              /\ counts.itineraries = Len(itineraries) - Len(itineraries')
              /\ counts.cruise_info = CountOf(cruise_info, "trip_id", T)
              /\ counts.cruise_info = Len(cruise_info) - Len(cruise_info')
              /\ counts.client_notes = CountOf(client_notes, "trip_id", T)
              /\ counts.client_notes = Len(client_notes) - Len(client_notes')
              /\ counts.client_photos = CountOf(client_photos, "trip_id", T)
              /\ counts.client_photos = Len(client_photos) - Len(client_photos')
              /\ (/\ CountOf(trip_admin, "trip_id", T) = 1
                  /\ CountOf(itineraries, "trip_id", T) = 2
                  /\ CountOf(cruise_info, "trip_id", T) = 0
                  /\ CountOf(client_notes, "trip_id", T) = 0
                  /\ CountOf(client_photos, "trip_id", T) = 0)
                 => counts = [trip |-> 1, financial_records |-> 1,
                              itineraries |-> 2, cruise_info |-> 0,
                              client_notes |-> 0, client_photos |-> 0]]_vars

\* a trip with one financial record and two itineraries has been deleted
\* while another trip is stored
C12_Witness ==
    /\ last.op = "delete_trip"
    /\ last.code = 200
    /\ last.deleted_counts = [trip |-> 1, financial_records |-> 1,
                              itineraries |-> 2, cruise_info |-> 0,
                              client_notes |-> 0, client_photos |-> 0]
    /\ Len(trips) = 1

\* C13: a delete-trip for a trip id that was already deleted removes nothing:
\* every collection is the same before and after the call.
C13_IdempotentCascade ==
    [][(/\ last'.op = "delete_trip"
        /\ last'.path_id \in IssuedIds("trips")
        /\ ~Found(trips, "id", last'.path_id))
       => UNCHANGED store]_vars

\* a deleted trip has been deleted once more, while an itinerary created
\* under its id after the first deletion is stored
C13_Witness ==
    /\ last.op = "delete_trip"
    /\ last.code = 404
    /\ last.path_id \in IssuedIds("trips")
    /\ ~Found(trips, "id", last.path_id)
    /\ Found(itineraries, "trip_id", last.path_id)

-----------------------------------------------------------------------------
(* The orphan sweep *)

\* The length given to to_list by the sweep.  The code gives 10000; the model
\* gives a length its collections can exceed, so that a listing cut short is
\* among the behaviours explored.
SweepListLimit == 2

\* collection.delete_many({key: {"$in": values}})
DeleteManyIn(coll, key, values) == SelectSeq(coll, LAMBDA d : d[key] \notin values)

\* [record for record in all_records if record.get("trip_id") not in existing_trip_ids]
Orphaned(all_records, existing_trip_ids) ==
    SelectSeq(all_records, LAMBDA record : record.trip_id \notin existing_trip_ids)

\* one "Clean orphaned ..." block of the sweep: the collection it leaves
CleanOrphaned(coll, existing_trip_ids) ==
    LET all_records == ToList(coll, SweepListLimit)
        orphaned == Orphaned(all_records, existing_trip_ids)
        orphaned_ids == {orphaned[i].trip_id : i \in 1..Len(orphaned)}
    IN  IF orphaned # <<>>
        THEN DeleteManyIn(coll, "trip_id", orphaned_ids)
        ELSE coll

\* sum(cleanup_results.values())
TotalDeleted(cleanup_results) ==
    cleanup_results.trip_admin + cleanup_results.itineraries
    + cleanup_results.cruise_info + cleanup_results.client_notes
    + cleanup_results.client_photos

\* POST /admin/cleanup-orphaned-data
cleanup_orphaned_data(u) ==
    /\ IF u.role # "admin"
       THEN /\ last' = Reply(u, "cleanup_orphaned_data", 403, <<>>)
            /\ UNCHANGED <<trip_admin, children>>
       ELSE LET existing_trips == ToList(trips, SweepListLimit)
                existing_trip_ids ==
                    {existing_trips[i].id : i \in 1..Len(existing_trips)}
            IN  /\ trip_admin' = CleanOrphaned(trip_admin, existing_trip_ids)
                /\ itineraries' = CleanOrphaned(itineraries, existing_trip_ids)
                /\ cruise_info' = CleanOrphaned(cruise_info, existing_trip_ids)
                /\ client_notes' = CleanOrphaned(client_notes, existing_trip_ids)
                /\ client_photos' = CleanOrphaned(client_photos, existing_trip_ids)
                /\ LET cleanup_results ==
                           [trip_admin |-> DeletedCount(trip_admin, trip_admin'),
                            itineraries |-> DeletedCount(itineraries, itineraries'),
                            cruise_info |-> DeletedCount(cruise_info, cruise_info'),
                            client_notes |-> DeletedCount(client_notes, client_notes'),
                            client_photos |->
                                DeletedCount(client_photos, client_photos')]
                   IN  last' = Reply(u, "cleanup_orphaned_data", 200,
                                   [details |-> cleanup_results,
                                    total_deleted |-> TotalDeleted(cleanup_results),
                                    remaining_trips |->
                                        Cardinality(existing_trip_ids)])
    /\ UNCHANGED <<trips, payment_installments, next_id, calc, inflight, running>>

SweepMaxTrips == 4
SweepMaxChildren == 3

\* the itineraries and cruise infos created so far
SweepChildrenCreated == (next_id.itineraries - 1) + (next_id.cruise_info - 1)

SweepNext ==
    \/ /\ Fresh("trips", SweepMaxTrips)
       /\ \E d \in TripData : create_trip(AdminUser, d)
    \/ /\ SweepChildrenCreated < SweepMaxChildren
       /\ \E t \in IssuedIds("trips") :
             \E d \in ChildData(t) : create_itinerary(AdminUser, d)
    \/ /\ SweepChildrenCreated < SweepMaxChildren
       /\ \E t \in IssuedIds("trips") :
             \E d \in ChildData(t) : create_cruise_info(AdminUser, t, d)
    \/ \E t \in IssuedIds("trips") : delete_trip(AdminUser, t)
    \/ \E u \in {AdminUser, AgentUser} : cleanup_orphaned_data(u)

SweepSpec == Init /\ [][SweepNext]_vars

-----------------------------------------------------------------------------
(* Claims on the orphan sweep *)

\* no document of the collection names a trip that is not stored
NoOrphanIn(coll, stored_trips) ==
    \A i \in 1..Len(coll) : Found(stored_trips, "id", coll[i].trip_id)

\* no financial record, itinerary, cruise info, note or photo is an orphan
NoOrphans ==
    /\ NoOrphanIn(trip_admin, trips)
    /\ NoOrphanIn(itineraries, trips)
    /\ NoOrphanIn(cruise_info, trips)
    /\ NoOrphanIn(client_notes, trips)
    /\ NoOrphanIn(client_photos, trips)

\* a sweep has just completed
Swept == last.op = "cleanup_orphaned_data" /\ last.code = 200

\* C14: after a completed orphan sweep no financial record, itinerary, cruise
\* info, client note or client photo has a trip_id that is not the id of a
\* stored trip.
C14_SweepLeavesNoOrphan == Swept => NoOrphans


\* every document of before that names a stored trip is in after
KeepsValid(before, after) ==
    \A i \in 1..Len(before) :
        Found(trips, "id", before[i].trip_id) => before[i] \in Docs(after)

\* C15: the orphan sweep never deletes a child record whose trip_id is the id
\* of a stored trip, however many trips and child records the store holds
\* (more trips than the sweep reads in one listing call included).
C15_SweepKeepsValid ==
    [][Swept'
       => /\ KeepsValid(trip_admin, trip_admin')
          /\ KeepsValid(itineraries, itineraries')
          /\ KeepsValid(cruise_info, cruise_info')
          /\ KeepsValid(client_notes, client_notes')
          /\ KeepsValid(client_photos, client_photos')]_vars

\* the counts of a sweep that deleted nothing
NothingDeleted ==
    [trip_admin |-> 0, itineraries |-> 0, cruise_info |-> 0, client_notes |-> 0,
     client_photos |-> 0]

\* C16: when the orphan sweep runs twice in a row with no write in between,
\* the second run deletes nothing and reports 0 for every collection and a
\* total of 0.
C16_IdempotentSweep ==
    [][(Swept /\ Swept')
       => /\ UNCHANGED store
          /\ last'.details = NothingDeleted
          /\ last'.total_deleted = 0]_vars

\* C17: the sweep reports for each of the five child collections exactly the
\* number of records it removed from it, total_deleted is the sum of the five
\* counts, and remaining_trips is the number of trips in the store.
C17_SweepCounts ==
    [][Swept'
       => /\ last'.details =
                [trip_admin |-> Len(trip_admin) - Len(trip_admin'),
                 itineraries |-> Len(itineraries) - Len(itineraries'),
                 cruise_info |-> Len(cruise_info) - Len(cruise_info'),
                 client_notes |-> Len(client_notes) - Len(client_notes'),
                 client_photos |-> Len(client_photos) - Len(client_photos')]
          /\ last'.total_deleted =
                (Len(trip_admin) - Len(trip_admin'))
                + (Len(itineraries) - Len(itineraries'))
                + (Len(cruise_info) - Len(cruise_info'))
                + (Len(client_notes) - Len(client_notes'))
                + (Len(client_photos) - Len(client_photos'))
          /\ last'.remaining_trips = Len(trips')]_vars

-----------------------------------------------------------------------------
(* A store without orphans: child records are created for stored trips     *)
(* only, so that the store holds no orphan before a trip is deleted        *)

\* the ids of the stored trips
StoredTripIds == {trips[i].id : i \in 1..Len(trips)}

OrderlyNext ==
    \/ /\ Fresh("trips", SweepMaxTrips)
       /\ \E d \in TripData : create_trip(AdminUser, d)
    \/ /\ SweepChildrenCreated < SweepMaxChildren
       /\ \E t \in StoredTripIds :
             \E d \in ChildData(t) : create_itinerary(AdminUser, d)
    \/ /\ SweepChildrenCreated < SweepMaxChildren
       /\ \E t \in StoredTripIds :
             \E d \in ChildData(t) : create_cruise_info(AdminUser, t, d)
    \/ \E t \in StoredTripIds : delete_trip(AdminUser, t)
    \/ cleanup_orphaned_data(AdminUser)

OrderlySpec == Init /\ [][OrderlyNext]_vars

\* C18: from a store with no orphans, a sweep that runs right after a
\* completed delete-trip reports 0 deleted records for every category.
C18_SweepAfterCascade ==
    [][(/\ last.op = "delete_trip"
        /\ last.code = 200
        /\ Swept')
       => /\ last'.details = NothingDeleted
          /\ last'.total_deleted = 0]_vars

-----------------------------------------------------------------------------
(* Add-installment requests served at once: create_payment_installment     *)
(* from one store call to the next, each call one step                     *)

\* no add-installment request is being served
Quiet == inflight = NoneInFlight

\* await db.payment_installments.insert_one(payment_dict)
create_payment_installment_insert(s, u, admin_id, payment_data) ==
    /\ inflight[s].pc = "idle"
    /\ IF ~Staff(u)
       THEN /\ last' = Reply(u, "create_payment_installment", 403, <<>>)
            /\ UNCHANGED <<payment_installments, next_id, inflight>>
       ELSE LET payment == Merge(payment_data,
                                 [id |-> next_id.payment_installments])
            IN  /\ payment_installments' = Append(payment_installments, payment)
                /\ next_id' = [next_id EXCEPT !.payment_installments = @ + 1]
                /\ inflight' = [inflight EXCEPT
                                  ![s] = [Idle EXCEPT !.pc = "inserted",
                                                      !.admin_id = admin_id,
                                                      !.caller = u.role,
                                                      !.payment = payment]]
                /\ UNCHANGED last
    /\ UNCHANGED <<trips, trip_admin, children, calc, running>>

\* installments = await db.payment_installments.find({"trip_admin_id": admin_id}).to_list(1000)
create_payment_installment_list(s) ==
    /\ inflight[s].pc = "inserted"
    /\ inflight' = [inflight EXCEPT
                      ![s].pc = "listed",
                      ![s].installments =
                          ToList(Find(payment_installments, "trip_admin_id",
                                      inflight[s].admin_id), ListLimit)]
    /\ UNCHANGED <<store, next_id, last, calc, running>>

\* the response of a served add-installment request
Returned(s, pre_balance) ==
    Merge(Response("create_payment_installment", 200,
                   [path_id |-> inflight[s].admin_id,
                    body_id |-> inflight[s].payment.trip_admin_id,
                    new_id |-> inflight[s].payment.id,
                    amount |-> inflight[s].payment.amount,
                    pre_balance |-> pre_balance]),
          [caller |-> inflight[s].caller])

\* trip_admin = await db.trip_admin.find_one({"id": admin_id}), and the return
\* when there is none
create_payment_installment_find(s) ==
    /\ inflight[s].pc = "listed"
    /\ IF Found(trip_admin, "id", inflight[s].admin_id)
       THEN /\ inflight' = [inflight EXCEPT
                              ![s].pc = "found",
                              ![s].trip_admin =
                                  FindOne(trip_admin, "id", inflight[s].admin_id)]
            /\ UNCHANGED last
       ELSE /\ inflight' = [inflight EXCEPT ![s] = Idle]
            /\ last' = Returned(s, 0)
    /\ UNCHANGED <<store, next_id, calc, running>>

\* calculated_data = calculate_trip_admin_fields(trip_admin, installments);
\* await db.trip_admin.update_one(...); return payment
create_payment_installment_update(s) ==
    /\ inflight[s].pc = "found"
    /\ LET calculated_data ==
               calculate_trip_admin_fields(inflight[s].trip_admin,
                                           inflight[s].installments)
       IN  trip_admin' = UpdateOne(trip_admin, "id", inflight[s].admin_id,
                                   [balance_due |-> calculated_data.balance_due])
    /\ inflight' = [inflight EXCEPT ![s] = Idle]
    /\ last' = Returned(s, StoredBalance(inflight[s].admin_id))
    /\ UNCHANGED <<trips, payment_installments, children, next_id, calc, running>>

ConcMaxPayments == 3

\* PaymentInstallmentCreate bodies naming financial record id a
ConcPaymentData(a) == {[trip_admin_id |-> a, amount |-> 300]}

ConcNext ==
    \/ /\ Fresh("trips", MaxTrips)
       /\ \E d \in TripData : create_trip(AdminUser, d)
    \/ /\ Fresh("trip_admin", MaxAdmins)
       /\ \E t \in IssuedIds("trips") :
             \E d \in AdminData(t) : create_trip_admin(AdminUser, t, d)
    \/ /\ Fresh("payment_installments", ConcMaxPayments)
       /\ \E s \in Slots, a \in IssuedIds("trip_admin") :
             /\ \A r \in Slots : r < s => inflight[r].pc # "idle"
             /\ \E d \in ConcPaymentData(a) :
                    create_payment_installment_insert(s, AdminUser, a, d)
    \/ \E s \in Slots : create_payment_installment_list(s)
    \/ \E s \in Slots : create_payment_installment_find(s)
    \/ \E s \in Slots : create_payment_installment_update(s)
    \/ /\ Quiet
       /\ Fresh("payment_installments", ConcMaxPayments)
       /\ \E a \in IssuedIds("trip_admin"), b \in KnownIds("trip_admin") :
             \E d \in ConcPaymentData(b) : create_payment_installment(AdminUser, a, d)
    \/ /\ Quiet
       /\ \E p \in IssuedIds("payment_installments") :
             delete_payment_installment(AdminUser, p)
    \/ /\ Quiet
       /\ \E a \in IssuedIds("trip_admin"), d \in AdminUpdates :
             update_trip_admin(AdminUser, a, d)

ConcSpec == Init /\ [][ConcNext]_vars

\* C19: two add-installment requests on one financial record served at once
\* do not lose each other's effect: under every interleaving of their store
\* calls, once both have returned the record's balance_due is gross - deposit
\* - the sum of its stored installments, both new ones included.
C19_ConcurrentAddsKept ==
    (/\ Quiet
     /\ last.op = "create_payment_installment"
     /\ last.code = 200)
    => \A i \in 1..Len(trip_admin) :
          trip_admin[i].balance_due = BalanceOf(trip_admin[i])


\* the financial record the request served last recalculated: the one the
\* removed installment named, or the one in the path
LastRecord ==
    IF last.op = "delete_payment_installment" THEN last.body_id ELSE last.path_id

\* the request served last was an add-installment, a remove-installment or an
\* update of a stored financial record
WroteRecord ==
    /\ last.op \in {"create_payment_installment", "delete_payment_installment",
                    "update_trip_admin"}
    /\ last.code = 200
    /\ Found(trip_admin, "id", LastRecord)

\* the record the request served last wrote has the balance_due its stored
\* gross, deposit and installments give
LastRecordHealed ==
    WroteRecord
    => StoredBalance(LastRecord) = BalanceOf(FindOne(trip_admin, "id", LastRecord))

\* C20: whatever balance_due the requests served at once left in a financial
\* record, the next add-installment, remove-installment or update of that
\* record that is served alone leaves balance_due = gross - deposit - the sum
\* of the record's installments.
C20_SelfHealing == [][(Quiet /\ Quiet') => LastRecordHealed']_vars

\* a remove-installment served alone has put right a balance_due that two
\* add-installment requests served at once had left wrong
C20_Witness ==
    /\ Quiet
    /\ WroteRecord
    /\ last.op = "delete_payment_installment"
    /\ last.pre_balance + last.amount # StoredBalance(LastRecord)
    /\ StoredBalance(LastRecord) = BalanceOf(FindOne(trip_admin, "id", LastRecord))

-----------------------------------------------------------------------------
(* Claims on requests that name a missing record *)

\* the request served by this step came from an administrator or an agent
ByStaff == last'.caller \in {"admin", "agent"}

\* C21: an add-installment against a financial-record id that does not exist
\* is answered with a not-found error and stores nothing: no installment is
\* inserted and no financial record is created.
C21_AddToMissingRecord ==
    [][(/\ last'.op = "create_payment_installment"
        /\ ByStaff
        /\ ~Found(trip_admin, "id", last'.path_id))
       => /\ last'.code = 404
          /\ payment_installments' = payment_installments
          /\ trip_admin' = trip_admin]_vars


\* C22: updating a financial record by an id that does not exist, creating a
\* financial record under a trip id that does not exist, and removing an
\* installment by an id that does not exist each return a not-found error and
\* leave every collection unchanged.
C22_MissingIdsRefused ==
    [][(/\ ByStaff
        /\ \/ /\ last'.op = "update_trip_admin"
              /\ ~Found(trip_admin, "id", last'.path_id)
           \/ /\ last'.op = "create_trip_admin"
              /\ ~Found(trips, "id", last'.path_id)
           \/ /\ last'.op = "delete_payment_installment"
              /\ ~Found(payment_installments, "id", last'.path_id))
       => /\ last'.code = 404
          /\ UNCHANGED store]_vars

\* a removed installment has been asked to be removed again, while a trip and
\* its financial record are stored
C22_Witness ==
    /\ last.op = "delete_payment_installment"
    /\ last.code = 404
    /\ last.path_id \in IssuedIds("payment_installments")
    /\ trips # <<>>
    /\ trip_admin # <<>>

-----------------------------------------------------------------------------
(* Authorization: the mutating requests by callers of every role *)

AuthMaxTrips == 1
AuthMaxAdmins == 1
AuthMaxPayments == 1

\* bodies of the change-trip-status requests
AuthStatusBodies == {[status |-> "confirmed"]}

\* callers of the financial record and installment requests: one of the
\* staff roles, which these handlers do not tell apart, and the client
AuthLedgerUsers == {AdminUser, ClientUser}

\* callers of the delete-trip and change-trip-status requests: the agent, on
\* trips of the agent and of another, and the client
AuthTripUsers == {AgentUser, ClientUser}

AuthNext ==
    \/ /\ Fresh("trips", AuthMaxTrips)
       /\ \E u \in {AdminUser, AgentUser}, d \in TripData : create_trip(u, d)
    \/ /\ Fresh("trip_admin", AuthMaxAdmins)
       /\ \E u \in AuthLedgerUsers, t \in IssuedIds("trips") :
             \E d \in AdminData(t) : create_trip_admin(u, t, d)
    \/ \E u \in AuthLedgerUsers, a \in IssuedIds("trip_admin"), d \in AdminUpdates :
          update_trip_admin(u, a, d)
    \/ /\ Fresh("payment_installments", AuthMaxPayments)
       /\ \E u \in AuthLedgerUsers, a \in IssuedIds("trip_admin") :
             \E d \in ConcPaymentData(a) : create_payment_installment(u, a, d)
    \/ \E u \in AuthLedgerUsers, p \in IssuedIds("payment_installments") :
          delete_payment_installment(u, p)
    \/ \E u \in AuthTripUsers, t \in IssuedIds("trips"), d \in AuthStatusBodies :
          update_trip_status(u, t, d)
    \/ \E u \in AuthTripUsers, t \in IssuedIds("trips") : delete_trip(u, t)
    \/ \E u \in Users : cleanup_orphaned_data(u)

AuthSpec == Init /\ [][AuthNext]_vars

\* the trip named by the request served by this step was stored and assigned
\* to another agent than the caller
OfAnotherAgent ==
    /\ Found(trips, "id", last'.path_id)
    /\ FindOne(trips, "id", last'.path_id).agent_id # AgentUser.id

\* C23: a client is refused on create and update financial record, add and
\* remove installment, change trip status and delete trip; a caller who is not
\* an administrator is refused on the orphan sweep; an agent is refused on
\* delete-trip and change-trip-status for a trip assigned to another agent; and
\* a refused request changes no record of any collection.
C23_Refusals ==
    [][(\/ /\ last'.caller = "client"
           /\ last'.op \in {"create_trip_admin", "update_trip_admin",
                            "create_payment_installment",
                            "delete_payment_installment",
                            "update_trip_status", "delete_trip"}
        \/ /\ last'.caller \in {"client", "agent"}
           /\ last'.op = "cleanup_orphaned_data"
        \/ /\ last'.caller = "agent"
           /\ last'.op \in {"delete_trip", "update_trip_status"}
           /\ OfAnotherAgent)
       => /\ last'.code = 403
          /\ UNCHANGED store]_vars

\* an agent has been refused the deletion of a trip of another agent that
\* has a financial record with an installment
C23_Witness ==
    /\ last.op = "delete_trip"
    /\ last.caller = "agent"
    /\ last.code = 403
    /\ Found(trips, "id", last.path_id)
    /\ Found(trip_admin, "trip_id", last.path_id)
    /\ payment_installments # <<>>

-----------------------------------------------------------------------------
(* The cascade deletion one write at a time, and its interruption *)

\* mutant: the trip document is deleted first
CascadeOrder_TripFirst ==
    <<"trips", "trip_admin", "itineraries", "cruise_info", "client_notes",
      "client_photos">>

\* mutant: the trip document is deleted before the client photos
CascadeOrder_TripBeforePhotos ==
    <<"trip_admin", "itineraries", "cruise_info", "client_notes", "trips",
      "client_photos">>

\* the collections delete_trip writes, in the order of its writes
CascadeOrder ==
    <<"trip_admin", "itineraries", "cruise_info", "client_notes",
      "client_photos", "trips">>

\* the collection of a name
Stored(name) ==
    CASE name = "trips" -> trips
      [] name = "trip_admin" -> trip_admin
      [] name = "itineraries" -> itineraries
      [] name = "cruise_info" -> cruise_info
      [] name = "client_notes" -> client_notes
      [] name = "client_photos" -> client_photos

\* no write of the cascade has run
NoCounts == [name \in {CascadeOrder[k] : k \in 1..Len(CascadeOrder)} |-> 0]

\* the deleted_count of each write as the response names them
DeletedCounts(counts) ==
    [trip |-> counts.trips,
     financial_records |-> counts.trip_admin,
     itineraries |-> counts.itineraries,
     cruise_info |-> counts.cruise_info,
     client_notes |-> counts.client_notes,
     client_photos |-> counts.client_photos]

\* DELETE /trips/{trip_id}: the checks before the first write
delete_trip_begin(u, trip_id) ==
    /\ running = NotRunning
    /\ IF ~Staff(u)
       THEN /\ last' = Reply(u, "delete_trip", 403, <<>>)
            /\ UNCHANGED running
       ELSE IF TripNotFound(trip_id)
       THEN /\ last' = Reply(u, "delete_trip", 404, [path_id |-> trip_id])
            /\ UNCHANGED running
       ELSE IF OtherAgentsTrip(u, FindOne(trips, "id", trip_id))
       THEN /\ last' = Reply(u, "delete_trip", 403, [path_id |-> trip_id])
            /\ UNCHANGED running
       ELSE /\ running' = [NotRunning EXCEPT !.op = "delete_trip",
                                             !.pc = 1,
                                             !.trip_id = trip_id,
                                             !.user = u,
                                             !.counts = NoCounts]
            /\ UNCHANGED last
    /\ UNCHANGED <<store, next_id, calc, inflight>>

\* the collection after the write the cascade is at
Cascaded(name, coll) ==
    IF CascadeOrder[running.pc] # name THEN coll
    ELSE IF name = "trips" THEN DeleteOne(coll, "id", running.trip_id)
    ELSE DeleteByTrip(coll, running.trip_id)

\* one delete_many or delete_one of the cascade, and the return after the last
delete_trip_step ==
    /\ running.op = "delete_trip"
    /\ trip_admin' = Cascaded("trip_admin", trip_admin)
    /\ itineraries' = Cascaded("itineraries", itineraries)
    /\ cruise_info' = Cascaded("cruise_info", cruise_info)
    /\ client_notes' = Cascaded("client_notes", client_notes)
    /\ client_photos' = Cascaded("client_photos", client_photos)
    /\ trips' = Cascaded("trips", trips)
    /\ LET name == CascadeOrder[running.pc]
           counts == [running.counts EXCEPT
                        ![name] = DeletedCount(Stored(name),
                                               Cascaded(name, Stored(name)))]
       IN  IF running.pc < Len(CascadeOrder)
           THEN /\ running' = [running EXCEPT !.pc = @ + 1, !.counts = counts]
                /\ UNCHANGED last
           ELSE /\ running' = NotRunning
                /\ last' = Reply(running.user, "delete_trip", 200,
                       [path_id |-> running.trip_id,
                        deleted_counts |-> DeletedCounts(counts)])
    /\ UNCHANGED <<payment_installments, next_id, calc, inflight>>

\* the write the cascade is at raises, or the process stops before it: the
\* request ends there with the counts of the writes that ran
delete_trip_fail ==
    /\ running.op = "delete_trip"
    /\ running' = NotRunning
    /\ last' = Reply(running.user, "delete_trip", 500,
           [path_id |-> running.trip_id,
            step |-> running.pc,
            deleted_counts |-> DeletedCounts(running.counts)])
    /\ UNCHANGED <<store, next_id, calc, inflight>>

CrashMaxTrips == 1
CrashMaxAdmins == 1
CrashMaxChildren == 2

CrashNext ==
    \/ /\ running = NotRunning
       /\ Fresh("trips", CrashMaxTrips)
       /\ \E d \in TripData : create_trip(AdminUser, d)
    \/ /\ running = NotRunning
       /\ Fresh("trip_admin", CrashMaxAdmins)
       /\ \E t \in IssuedIds("trips") :
             \E d \in AdminData(t) : create_trip_admin(AdminUser, t, d)
    \/ /\ running = NotRunning
       /\ ChildrenCreated < CrashMaxChildren
       /\ \E t \in IssuedIds("trips") :
             \E d \in ChildData(t) : create_itinerary(AdminUser, d)
    \/ /\ running = NotRunning
       /\ ChildrenCreated < CrashMaxChildren
       /\ \E t \in IssuedIds("trips") :
             \E d \in ChildData(t) : create_cruise_info(AdminUser, t, d)
    \/ /\ running = NotRunning
       /\ ChildrenCreated < CrashMaxChildren
       /\ \E t \in IssuedIds("trips") :
             \E d \in ChildData(t) : create_client_note(ClientUser, t, d)
    \/ /\ running = NotRunning
       /\ ChildrenCreated < CrashMaxChildren
       /\ \E t \in IssuedIds("trips") : upload_photo(AdminUser, t)
    \/ \E t \in IssuedIds("trips") : delete_trip_begin(AdminUser, t)
    \/ delete_trip_step
    \/ delete_trip_fail

CrashSpec == Init /\ [][CrashNext]_vars

\* this step is the end of a cascade at a write that did not run, after at
\* least one write that did
CascadeFailed ==
    /\ running.op = "delete_trip"
    /\ running' = NotRunning
    /\ last'.op = "delete_trip"
    /\ last'.code = 500
    /\ last'.step > 1

-----------------------------------------------------------------------------
(* Deferred recovery: create requests served between the writes of a       *)
(* cascade, cascades that end early, and the sweep afterwards              *)

RecoverMaxTrips == 2
RecoverMaxAdmins == 1
RecoverMaxChildren == 3

\* the itineraries, cruise infos and notes created so far
RecoverChildrenCreated ==
    (next_id.itineraries - 1) + (next_id.cruise_info - 1)
    + (next_id.client_notes - 1)

RecoverNext ==
    \/ /\ Fresh("trips", RecoverMaxTrips)
       /\ \E d \in TripData : create_trip(AdminUser, d)
    \/ /\ Fresh("trip_admin", RecoverMaxAdmins)
       /\ \E t \in StoredTripIds :
             \E d \in AdminData(t) : create_trip_admin(AdminUser, t, d)
    \/ /\ RecoverChildrenCreated < RecoverMaxChildren
       /\ \E t \in StoredTripIds :
             \E d \in ChildData(t) : create_itinerary(AdminUser, d)
    \/ /\ RecoverChildrenCreated < RecoverMaxChildren
       /\ \E t \in StoredTripIds :
             \E d \in ChildData(t) : create_cruise_info(AdminUser, t, d)
    \/ /\ RecoverChildrenCreated < RecoverMaxChildren
       /\ \E t \in StoredTripIds :
             \E d \in ChildData(t) : create_client_note(ClientUser, t, d)
    \/ \E t \in StoredTripIds : delete_trip_begin(AdminUser, t)
    \/ delete_trip_step
    \/ delete_trip_fail
    \/ /\ running = NotRunning
       /\ cleanup_orphaned_data(AdminUser)

RecoverSpec == Init /\ [][RecoverNext]_vars

\* C25: whatever orphans exist in the five swept collections after delete-trip
\* requests interleaved with create requests for child records, or after an
\* interrupted cascade, one sweep that runs afterwards while no cascade is
\* running leaves none of them.
C25_SweepRecovers ==
    [][(running = NotRunning /\ Swept') => NoOrphans']_vars

-----------------------------------------------------------------------------
(* Claims on the references between the records *)

\* C26: at most one financial record is stored per trip id; a second create
\* request for a trip that has a record does not store a second one.
C26_OneRecordPerTrip ==
    \A i, j \in 1..Len(trip_admin) :
        trip_admin[i].trip_id = trip_admin[j].trip_id => i = j


\* C27: in every state between requests, the trip_admin_id of each stored
\* payment installment is the id of a stored financial record.
C27_InstallmentHasRecord ==
    \A i \in 1..Len(payment_installments) :
        Found(trip_admin, "id", payment_installments[i].trip_admin_id)

-----------------------------------------------------------------------------
(* The change of a trip's status one write at a time, the process stopping *)
(* between the two writes, and the request issued again                    *)

\* no request is between its writes: none began, or the process stopped
NoneRunning == running.op = "" \/ running.stopped

\* PUT /trips/{trip_id}/status: the checks and the write of the trip
update_trip_status_write(u, trip_id, status_data) ==
    /\ NoneRunning
    /\ IF ~Staff(u)
       THEN /\ last' = Reply(u, "update_trip_status", 403, <<>>)
            /\ UNCHANGED <<trips, running>>
       ELSE IF ~Found(trips, "id", trip_id)
       THEN /\ last' = Reply(u, "update_trip_status", 404, <<>>)
            /\ UNCHANGED <<trips, running>>
       ELSE IF OtherAgentsTrip(u, FindOne(trips, "id", trip_id))
       THEN /\ last' = Reply(u, "update_trip_status", 403, [path_id |-> trip_id])
            /\ UNCHANGED <<trips, running>>
       ELSE LET trip == FindOne(trips, "id", trip_id)
                new_status == Get(status_data, "status", "")
            IN  IF new_status \notin TripStatus \/ LacksRequiredData(trip, new_status)
                THEN /\ last' = Reply(u, "update_trip_status", 400,
                                         [path_id |-> trip_id, status |-> new_status])
                     /\ UNCHANGED <<trips, running>>
                ELSE /\ trips' = UpdateOne(trips, "id", trip_id,
                                           [status |-> new_status])
                     /\ running' = [NotRunning EXCEPT !.op = "update_trip_status",
                                                      !.pc = 2,
                                                      !.trip_id = trip_id,
                                                      !.status = new_status,
                                                      !.user = u]
                     /\ UNCHANGED last
    /\ UNCHANGED <<trip_admin, payment_installments, children, next_id, calc, inflight>>

\* the find_one and update_one on trip_admin, and the return
update_trip_status_mirror ==
    /\ running.op = "update_trip_status"
    /\ ~running.stopped
    /\ trip_admin' = MirrorStatus(trip_admin, running.trip_id, running.status)
    /\ last' = Reply(running.user, "update_trip_status", 200,
                     [path_id |-> running.trip_id, status |-> running.status,
                      pre_status |-> StatusIn(trip_admin, running.trip_id)])
    /\ running' = NotRunning
    /\ UNCHANGED <<trips, payment_installments, children, next_id, calc, inflight>>

\* the process stops after the write of the trip: the request gets no response
\* and nothing serves it further
update_trip_status_stop ==
    /\ running.op = "update_trip_status"
    /\ ~running.stopped
    /\ running' = [running EXCEPT !.stopped = TRUE]
    /\ UNCHANGED <<store, next_id, last, calc, inflight>>

RetryMaxTrips == 1
RetryMaxAdmins == 1

\* bodies of the change-trip-status requests
RetryBodies == {[status |-> x] : x \in {"confirmed", "draft", "active"}}

RetryNext ==
    \/ /\ NoneRunning
       /\ Fresh("trips", RetryMaxTrips)
       /\ \E d \in TripData : create_trip(AdminUser, d)
    \/ /\ NoneRunning
       /\ Fresh("trip_admin", RetryMaxAdmins)
       /\ \E t \in IssuedIds("trips") :
             \E d \in AdminData(t) : create_trip_admin(AdminUser, t, d)
    \/ /\ NoneRunning
       /\ \E a \in IssuedIds("trip_admin"), d \in StatusAdminUpdates :
             update_trip_admin(AdminUser, a, d)
    \/ \E t \in IssuedIds("trips"), d \in RetryBodies :
          update_trip_status_write(AdminUser, t, d)
    \/ update_trip_status_mirror
    \/ update_trip_status_stop
    \/ /\ NoneRunning
       /\ \E t \in IssuedIds("trips"), d \in RetryBodies :
             update_trip_status(AdminUser, t, d)

RetrySpec == Init /\ [][RetryNext]_vars

\* the request the process stopped in asked for confirmed or draft, and this
\* step serves the same request to completion
Reissued ==
    /\ running.op = "update_trip_status"
    /\ running.stopped
    /\ running.status \in {"confirmed", "draft"}
    /\ running' = running
    /\ last'.op = "update_trip_status"
    /\ last'.code = 200
    /\ last'.path_id = running.trip_id
    /\ last'.status = running.status
    /\ last' # last

\* C28: when the process stops between the write of the trip and the write of
\* the mirror, nothing writes the mirror by itself, and the same request
\* issued again and served to completion leaves the financial record of the
\* trip with the status asked for, confirmed or draft.
C28_ReissueRestoresMirror ==
    [][/\ (running'.stopped /\ ~running.stopped) => UNCHANGED <<store, last>>
       /\ (Reissued /\ Found(trip_admin, "trip_id", running.trip_id))
          => StatusIn(trip_admin', running.trip_id) = running.status]_vars

\* the process stopped before the mirror write of a request for confirmed, and
\* the request issued again found the record with another status and left it
\* confirmed
C28_Witness ==
    /\ running.op = "update_trip_status"
    /\ running.stopped
    /\ running.status = "confirmed"
    /\ last.op = "update_trip_status"
    /\ last.code = 200
    /\ last.path_id = running.trip_id
    /\ last.status = "confirmed"
    /\ last.pre_status \in {"draft", "paid", "cancelled"}
    /\ FindOne(trips, "id", running.trip_id).status = "confirmed"
    /\ StatusIn(trip_admin, running.trip_id) = "confirmed"

-----------------------------------------------------------------------------
(* The financial report *)

\* datetime(year, month, 1).isoformat(): the strings are compared as strings,
\* which orders them as the months they name; a month is written as its number
\* counted from year 0
IsoFormat(year, month) == year * 12 + (month - 1)

\* date_query; year and month are 0 when the request does not give them
DateQuery(year, month) ==
    IF year # 0
    THEN IF month # 0
         THEN [gte |-> IsoFormat(year, month),
               lt |-> IF month = 12 THEN IsoFormat(year + 1, 1)
                                    ELSE IsoFormat(year, month + 1)]
         ELSE [gte |-> IsoFormat(year, 1), lt |-> IsoFormat(year + 1, 1)]
    ELSE <<>>

\* mutant: the caller's role does not narrow the report
AgentOf_AsRequested(u, agent_id) == agent_id

\* "If agent, can only see own data"; "" when no agent is asked for
AgentOf(u, agent_id) == IF u.role = "agent" THEN u.id ELSE agent_id

\* db.trip_admin.find(query).to_list(1000) for the query of the report
ConfirmedTrips(year, month, agent) ==
    LET date_query == DateQuery(year, month)
        agent_trips == ToList(Find(trips, "agent_id", agent), ListLimit)
        trip_ids == {agent_trips[i].id : i \in 1..Len(agent_trips)}
        query(doc) ==
            /\ doc.status = "confirmed"
            /\ date_query # <<>>
               => /\ "practice_confirm_date" \in DOMAIN doc
                  /\ doc.practice_confirm_date >= date_query.gte
                  /\ doc.practice_confirm_date < date_query.lt
            /\ agent # "" => doc.trip_id \in trip_ids
    IN  ToList(SelectSeq(trip_admin, query), ListLimit)

\* GET /reports/financial
get_financial_reports(u, year, month, agent_id) ==
    /\ IF ~Staff(u)
       THEN last' = Reply(u, "get_financial_reports", 403, <<>>)
       ELSE LET confirmed_trips == ConfirmedTrips(year, month, AgentOf(u, agent_id))
            IN  last' = Reply(u, "get_financial_reports", 200,
                    [year |-> year, month |-> month, agent_id |-> agent_id,
                     detailed_trips |->
                        [i \in 1..Len(confirmed_trips) |-> confirmed_trips[i].id]])
    /\ UNCHANGED <<store, next_id, calc, inflight, running>>

ReportMaxTrips == 1
ReportMaxAdmins == 1

\* TripAdminCreate bodies naming trip id t, confirmed in November 2025, in
\* December 2025 or in January 2026
ReportAdminData(t) ==
    {[trip_id |-> t, gross_amount |-> 2000, net_amount |-> 1800, discount |-> 100,
      confirmation_deposit |-> 500, practice_confirm_date |-> IsoFormat(y, m)] :
        <<y, m>> \in {<<2025, 11>>, <<2025, 12>>, <<2026, 1>>}}

\* bodies of the change-trip-status requests
ReportBodies == {[status |-> "confirmed"], [status |-> "draft"]}

\* the years, months and agents a report is asked for; 0 and "" for none
ReportYears == {0, 2025}
ReportMonths == {0, 12}
ReportAgents == {"", AgentUser.id}

ReportNext ==
    \/ /\ Fresh("trips", ReportMaxTrips)
       /\ \E u \in {AdminUser, AgentUser}, d \in TripData : create_trip(u, d)
    \/ /\ Fresh("trip_admin", ReportMaxAdmins)
       /\ \E t \in IssuedIds("trips") :
             \E d \in ReportAdminData(t) : create_trip_admin(AdminUser, t, d)
    \/ \E t \in IssuedIds("trips"), d \in ReportBodies :
          update_trip_status(AdminUser, t, d)
    \/ \E u \in Users, y \in ReportYears, m \in ReportMonths, a \in ReportAgents :
          get_financial_reports(u, y, m, a)

ReportSpec == Init /\ [][ReportNext]_vars

\* a report has just been returned
Reported == last.op = "get_financial_reports" /\ last.code = 200

\* the report returned last lists the financial record
Listed(record) ==
    \E i \in 1..Len(last.detailed_trips) : last.detailed_trips[i] = record.id

\* the record was confirmed in the year and month the report returned last
\* was asked for
InPeriod(record) ==
    \/ last.year = 0
    \/ /\ record.practice_confirm_date \div 12 = last.year
       /\ \/ last.month = 0
          \/ record.practice_confirm_date % 12 = last.month - 1

\* the report returned last is narrowed to an agent, and the record's trip is
\* not assigned to that agent
OutOfScope(record) ==
    LET agent == IF last.caller = "agent" THEN AgentUser.id ELSE last.agent_id
    IN  /\ agent # ""
        /\ \A i \in 1..Len(trips) :
              trips[i].id = record.trip_id => trips[i].agent_id # agent

-----------------------------------------------------------------------------
(* Rejected changes of a trip's status *)

RejectMaxTrips == 1
RejectMaxAdmins == 1

\* TripCreate bodies: complete, with an empty title, with no client
RejectTripData ==
    {[title |-> "Crociera", client_id |-> "client-1"],
     [title |-> "", client_id |-> "client-1"],
     [title |-> "Crociera", client_id |-> ""]}

RejectNext ==
    \/ /\ Fresh("trips", RejectMaxTrips)
       /\ \E d \in RejectTripData : create_trip(AdminUser, d)
    \/ /\ Fresh("trip_admin", RejectMaxAdmins)
       /\ \E t \in IssuedIds("trips") :
             \E d \in AdminData(t) : create_trip_admin(AdminUser, t, d)
    \/ \E t \in IssuedIds("trips"), d \in StatusBodies :
          update_trip_status(AdminUser, t, d)

RejectSpec == Init /\ [][RejectNext]_vars

\* the request served by this step asks, for a stored trip, for a status that
\* is none of the five, or for active or confirmed while the trip has an empty
\* title or no client
ToBeRejected ==
    /\ last'.op = "update_trip_status"
    /\ last'.caller = "admin"
    /\ \E i \in 1..Len(trips) :
          /\ trips[i].id = last'.path_id
          /\ \/ last'.status \notin
                   {"draft", "active", "confirmed", "completed", "cancelled"}
             \/ /\ last'.status \in {"active", "confirmed"}
                /\ (trips[i].title = "" \/ trips[i].client_id = "")

\* C31: a change-trip-status request with a status outside draft, active,
\* confirmed, completed, cancelled, or into active or confirmed for a trip with
\* an empty title or no assigned client, is rejected, and the trip and its
\* financial record are as they were.
C31_RejectedBeforeAnyWrite ==
    [][ToBeRejected
       => /\ last'.code = 400
          /\ UNCHANGED <<trips, trip_admin>>]_vars

\* the confirmation of a trip with a title, a financial record and no client
\* has been rejected
C31_Witness ==
    /\ last.op = "update_trip_status"
    /\ last.code = 400
    /\ last.status = "confirmed"
    /\ Found(trips, "id", last.path_id)
    /\ FindOne(trips, "id", last.path_id).client_id = ""
    /\ FindOne(trips, "id", last.path_id).title # ""
    /\ Found(trip_admin, "trip_id", last.path_id)

-----------------------------------------------------------------------------
(* The derived commissions of the stored financial records *)

DerivedMaxTrips == 1
DerivedMaxAdmins == 1
DerivedMaxPayments == 1

\* TripAdminUpdate bodies: one raw amount, two at once, and the status
DerivedUpdates ==
    {[gross_amount |-> 2500], [net_amount |-> 1500, discount |-> 50],
     [status |-> "paid"]}

DerivedNext ==
    \/ /\ Fresh("trips", DerivedMaxTrips)
       /\ \E d \in TripData : create_trip(AdminUser, d)
    \/ /\ Fresh("trip_admin", DerivedMaxAdmins)
       /\ \E t \in IssuedIds("trips") :
             \E d \in AdminData(t) : create_trip_admin(AdminUser, t, d)
    \/ \E a \in IssuedIds("trip_admin"), d \in DerivedUpdates :
          update_trip_admin(AdminUser, a, d)
    \/ /\ Fresh("payment_installments", DerivedMaxPayments)
       /\ \E a \in IssuedIds("trip_admin") :
             \E d \in ConcPaymentData(a) : create_payment_installment(AdminUser, a, d)
    \/ \E p \in IssuedIds("payment_installments") :
          delete_payment_installment(AdminUser, p)
    \/ \E t \in IssuedIds("trips"), d \in AuthStatusBodies :
          update_trip_status(AdminUser, t, d)

DerivedSpec == Init /\ [][DerivedNext]_vars

\* C32: every stored financial record has gross_commission equal to
\* gross_amount - discount - net_amount, supplier_commission equal to 4% of
\* gross_amount and agent_commission equal to gross_commission -
\* supplier_commission, of the raw amounts it has now.
C32_StoredCommissions ==
    \A i \in 1..Len(trip_admin) :
        LET record == trip_admin[i]
        IN  /\ record.gross_commission
                  = record.gross_amount - record.discount - record.net_amount
            /\ record.supplier_commission * 100 = record.gross_amount * 4
            /\ record.agent_commission
                  = record.gross_commission - record.supplier_commission

\* a record whose gross amount, net amount and discount were all changed by an
\* update, with an installment, has been confirmed through its trip
C32_Witness ==
    /\ last.op = "update_trip_status"
    /\ last.code = 200
    /\ payment_installments # <<>>
    /\ \E i \in 1..Len(trip_admin) :
          /\ trip_admin[i].gross_amount = 2500
          /\ trip_admin[i].net_amount = 1500
          /\ trip_admin[i].discount = 50
          /\ trip_admin[i].status = "confirmed"

-----------------------------------------------------------------------------
(* Reading the financial record of a trip *)

\* mutant: the document is returned as it is stored
Recalculated_AsStored(record) == record

\* the document with the derived fields calculated from the installments stored
\* for it now
Recalculated(record) ==
    calculate_trip_admin_fields(
        record,
        ToList(Find(payment_installments, "trip_admin_id", record.id), ListLimit))

\* GET /trips/{trip_id}/admin
get_trip_admin(u, trip_id) ==
    /\ IF ~Staff(u)
       THEN last' = Reply(u, "get_trip_admin", 403, <<>>)
       ELSE IF Found(trip_admin, "trip_id", trip_id)
       THEN LET record == FindOne(trip_admin, "trip_id", trip_id)
            IN  last' = Reply(u, "get_trip_admin", 200,
                    [path_id |-> trip_id,
                     admin_id |-> record.id,
                     pre_balance |-> record.balance_due,
                     balance_due |-> Recalculated(record).balance_due])
       ELSE last' = Reply(u, "get_trip_admin", 200, [path_id |-> trip_id])
    /\ UNCHANGED <<store, next_id, calc, inflight, running>>

ReadMaxTrips == 1
ReadMaxAdmins == 1
ReadMaxPayments == 2

ReadNext ==
    \/ /\ Fresh("trips", ReadMaxTrips)
       /\ \E d \in TripData : create_trip(AdminUser, d)
    \/ /\ Fresh("trip_admin", ReadMaxAdmins)
       /\ \E t \in IssuedIds("trips") :
             \E d \in AdminData(t) : create_trip_admin(AdminUser, t, d)
    \/ /\ Fresh("payment_installments", ReadMaxPayments)
       /\ \E a \in KnownIds("trip_admin"), b \in IssuedIds("trip_admin") :
             \E d \in PaymentData(b) : create_payment_installment(AdminUser, a, d)
    \/ \E p \in IssuedIds("payment_installments") :
          delete_payment_installment(AdminUser, p)
    \/ \E u \in {AdminUser, ClientUser}, t \in KnownIds("trips") :
          get_trip_admin(u, t)

ReadSpec == Init /\ [][ReadNext]_vars

\* C33: the read of a trip's financial record returns balance_due = gross
\* amount - deposit - the sum of the installments stored for that record at the
\* time of the read, also when the stored balance_due is another, and writes
\* nothing.
C33_ReadRecalculates ==
    [][(/\ last'.op = "get_trip_admin"
        /\ last'.code = 200
        /\ last'.admin_id # 0)
       => /\ \E i \in 1..Len(trip_admin) :
                /\ trip_admin[i].id = last'.admin_id
                /\ trip_admin[i].trip_id = last'.path_id
                /\ last'.balance_due
                      = trip_admin[i].gross_amount
                        - trip_admin[i].confirmation_deposit
                        - SumAmounts(Find(payment_installments, "trip_admin_id",
                                          trip_admin[i].id))
          /\ UNCHANGED store]_vars

\* a read has returned a balance that is not the stored one, for a record with
\* two installments
C33_Witness ==
    /\ last.op = "get_trip_admin"
    /\ last.code = 200
    /\ last.admin_id # 0
    /\ last.balance_due # last.pre_balance
    /\ CountOf(payment_installments, "trip_admin_id", last.admin_id) = 2

-----------------------------------------------------------------------------
(* The trip is deleted last *)

\* this step is the end of a cascade at a write that did not run
CascadeInterrupted ==
    /\ running.op = "delete_trip"
    /\ running' = NotRunning
    /\ last'.op = "delete_trip"
    /\ last'.code = 500

\* the request served last was a cascade that ended early, and this step is
\* the response to the next request, a delete-trip of the same trip
CascadeReissued ==
    /\ last.op = "delete_trip"
    /\ last.code = 500
    /\ last' # last
    /\ last'.op = "delete_trip"
    /\ last'.path_id = last.path_id

\* C34: the trip document is deleted last: when delete-trip ends after any
\* prefix of its writes, the trip is still stored, so no child record of it
\* names a missing trip; and when no other request is served, delete-trip
\* issued again is not answered 404, and once it returns, the trip and its
\* financial records, itineraries, cruise infos, notes and photos are gone.
C34_TripDeletedLast ==
    [][/\ CascadeInterrupted
          => /\ Found(trips', "id", last'.path_id)
             /\ UNCHANGED store
       /\ CascadeReissued
          => /\ last'.code \in {200, 500}
             /\ last'.code = 200
                => /\ ~Found(trips', "id", last'.path_id)
                   /\ \A k \in 1..Len(CascadeOrder) :
                         CascadeOrder[k] # "trips"
                         => CountOf(Stored(CascadeOrder[k])', "trip_id",
                                    last'.path_id) = 0]_vars

\* delete-trip has returned for the one trip, which had a financial record: it
\* found no record, as a cascade that ended early had deleted it, and deleted
\* an itinerary and the trip
C34_Witness ==
    /\ last.op = "delete_trip"
    /\ last.code = 200
    /\ next_id.trips = 2
    /\ next_id.trip_admin = 2
    /\ last.deleted_counts.financial_records = 0
    /\ last.deleted_counts.itineraries = 1
    /\ last.deleted_counts.trip = 1

-----------------------------------------------------------------------------
(* The orphan sweep served one block at a time *)

\* the "Clean orphaned ..." blocks of the sweep, in the order of the code
SweepOrder ==
    <<"trip_admin", "itineraries", "cruise_info", "client_notes", "client_photos">>

\* cleanup_results = {}
NoResults == [name \in {SweepOrder[k] : k \in 1..Len(SweepOrder)} |-> 0]

\* POST /admin/cleanup-orphaned-data: the role check and the listing of trips
cleanup_orphaned_data_begin(u) ==
    /\ running = NotRunning
    /\ IF u.role # "admin"
       THEN /\ last' = Reply(u, "cleanup_orphaned_data", 403, <<>>)
            /\ UNCHANGED running
       ELSE LET existing_trips == ToList(trips, SweepListLimit)
            IN  /\ running' =
                      [NotRunning EXCEPT
                          !.op = "cleanup_orphaned_data",
                          !.pc = 1,
                          !.user = u,
                          !.counts = NoResults,
                          !.existing_trip_ids =
                              {existing_trips[i].id : i \in 1..Len(existing_trips)}]
                /\ UNCHANGED last
    /\ UNCHANGED <<store, next_id, calc, inflight>>

\* the collection after the block the sweep is at
Cleaned(name, coll) ==
    IF SweepOrder[running.pc] # name THEN coll
    ELSE CleanOrphaned(coll, running.existing_trip_ids)

\* one "Clean orphaned ..." block, and the return after the last
cleanup_orphaned_data_step ==
    /\ running.op = "cleanup_orphaned_data"
    /\ trip_admin' = Cleaned("trip_admin", trip_admin)
    /\ itineraries' = Cleaned("itineraries", itineraries)
    /\ cruise_info' = Cleaned("cruise_info", cruise_info)
    /\ client_notes' = Cleaned("client_notes", client_notes)
    /\ client_photos' = Cleaned("client_photos", client_photos)
    /\ LET name == SweepOrder[running.pc]
           cleanup_results ==
               [running.counts EXCEPT
                  ![name] = DeletedCount(Stored(name),
                                         Cleaned(name, Stored(name)))]
       IN  IF running.pc < Len(SweepOrder)
           THEN /\ running' = [running EXCEPT !.pc = @ + 1,
                                              !.counts = cleanup_results]
                /\ UNCHANGED last
           ELSE /\ running' = NotRunning
                /\ last' = Reply(running.user, "cleanup_orphaned_data", 200,
                       [details |-> cleanup_results,
                        total_deleted |-> TotalDeleted(cleanup_results),
                        remaining_trips |->
                            Cardinality(running.existing_trip_ids)])
    /\ UNCHANGED <<trips, payment_installments, next_id, calc, inflight>>

OverlapMaxTrips == 2
OverlapMaxChildren == 2

\* trips and child records are created while a sweep is between its blocks;
\* a child record names a stored trip, or no trip (0)
OverlapNext ==
    \/ /\ Fresh("trips", OverlapMaxTrips)
       /\ \E d \in TripData : create_trip(AdminUser, d)
    \/ /\ SweepChildrenCreated < OverlapMaxChildren
       /\ \E t \in KnownIds("trips") :
             \E d \in ChildData(t) : create_itinerary(AdminUser, d)
    \/ /\ SweepChildrenCreated < OverlapMaxChildren
       /\ \E t \in KnownIds("trips") :
             \E d \in ChildData(t) : create_cruise_info(AdminUser, t, d)
    \/ \E u \in {AdminUser, AgentUser} : cleanup_orphaned_data_begin(u)
    \/ cleanup_orphaned_data_step

OverlapSpec == Init /\ [][OverlapNext]_vars

\* a block of a sweep runs
BlockRuns ==
    /\ running.op = "cleanup_orphaned_data"
    /\ running' # running

\* C35: a sweep served while trips and child records are created never deletes
\* a financial record, itinerary, cruise info, note or photo whose trip is
\* stored when the block deleting it runs.
C35_BlockKeepsValid ==
    [][BlockRuns
       => /\ KeepsValid(trip_admin, trip_admin')
          /\ KeepsValid(itineraries, itineraries')
          /\ KeepsValid(cruise_info, cruise_info')
          /\ KeepsValid(client_notes, client_notes')
          /\ KeepsValid(client_photos, client_photos')]_vars

-----------------------------------------------------------------------------
(* The trip a new financial record names *)

TiedMaxTrips == 2
TiedMaxAdmins == 2

\* create-financial-record requests whose body names the trip of the path,
\* another trip, or no trip (0)
TiedNext ==
    \/ /\ Fresh("trips", TiedMaxTrips)
       /\ \E d \in TripData : create_trip(AdminUser, d)
    \/ /\ Fresh("trip_admin", TiedMaxAdmins)
       /\ \E t \in KnownIds("trips"), b \in KnownIds("trips") :
             \E d \in AdminData(b) : create_trip_admin(AdminUser, t, d)
    \/ \E t \in IssuedIds("trips") : delete_trip(AdminUser, t)

TiedSpec == Init /\ [][TiedNext]_vars

\* a create-financial-record request stores a record
RecordCreated ==
    /\ next_id'.trip_admin # next_id.trip_admin
    /\ last'.op = "create_trip_admin"
    /\ last'.code = 200

\* C36: the financial record stored by a successful create-financial-record
\* request names the trip of the request path, which is stored at the time of
\* the request, whatever trip_id the body carries.
C36_RecordNamesCheckedTrip ==
    [][RecordCreated
       => /\ FindOne(trip_admin', "id", last'.new_id).trip_id = last'.path_id
          /\ Found(trips, "id", FindOne(trip_admin', "id", last'.new_id).trip_id)]_vars

-----------------------------------------------------------------------------
(* What add-installment and remove-installment write *)

\* an add-installment or remove-installment request has stored or deleted an
\* installment
InstallmentServed ==
    /\ payment_installments' # payment_installments
    /\ last'.op \in {"create_payment_installment", "delete_payment_installment"}
    /\ last'.code = 200

\* the two documents differ in balance_due at most
SameButBalance(before, after) ==
    after = [before EXCEPT !.balance_due = after.balance_due]

\* C37: add-installment and remove-installment change only the balance_due of
\* the financial record the installment belongs to: its other fields, every
\* other financial record and every trip are as before.
C37_OnlyParentBalance ==
    [][InstallmentServed
       => /\ trips' = trips
          /\ Len(trip_admin') = Len(trip_admin)
          /\ \A i \in 1..Len(trip_admin) :
                IF trip_admin[i].id = last'.body_id
                THEN SameButBalance(trip_admin[i], trip_admin'[i])
                ELSE trip_admin'[i] = trip_admin[i]]_vars

-----------------------------------------------------------------------------
(* What the orphan sweep writes *)

\* the documents of the collection that name a stored trip, in stored order
ValidIn(coll, stored_trips) ==
    SelectSeq(coll, LAMBDA d : Found(stored_trips, "id", d.trip_id))

\* C38: a completed orphan sweep leaves the trips as they were, and leaves
\* every financial record, itinerary, cruise info, note and photo whose trip
\* is stored in place with the fields it had.
C38_SweepWritesOrphansOnly ==
    [][Swept'
       => /\ trips' = trips
          /\ ValidIn(trip_admin', trips) = ValidIn(trip_admin, trips)
          /\ ValidIn(itineraries', trips) = ValidIn(itineraries, trips)
          /\ ValidIn(cruise_info', trips) = ValidIn(cruise_info, trips)
          /\ ValidIn(client_notes', trips) = ValidIn(client_notes, trips)
          /\ ValidIn(client_photos', trips) = ValidIn(client_photos, trips)]_vars

====
